---------------------------- MODULE Spec2Model ----------------------------
(***************************************************************************)
(* A model of the hft_cpp repository: the lock-free ring buffer            *)
(* (ultra_hft_server.h) and the two epoll servers, HFTServer               *)
(* (hft_server.cpp) and UltraHFTServer (ultra_hft_server.cpp).             *)
(*                                                                         *)
(* The module holds several specifications over one set of variables:     *)
(*   SpecRing   the ring buffer, one producer and one consumer, every      *)
(*              load / slot access / index store a step of its own;        *)
(*   SpecServe  a server (either class) that is initialized and started    *)
(*              by main and serves clients with its worker threads;        *)
(*   SpecEcho   the same program with one worker and one client that      *)
(*              sends its records back to back;                            *)
(*   SpecPair   the same program with two workers and one client;          *)
(*   SpecReg    a server whose services are registered while it serves;    *)
(*   SpecPool   the buffer pool of UltraHFTServer and its callers;          *)
(*   SpecFault  a server whose client may reset its connection;            *)
(*   SpecSignal main with its signal handler, the workers and a client;    *)
(*   SpecPartial a server whose client sends more than one recv takes;     *)
(*   SpecDispatch the variant selection of HFTServer on every size and tag; *)
(*   SpecReuse  two workers and clients that reset or close, so that a     *)
(*              descriptor number is given to a second client;             *)
(*   SpecQueue  message_queue_ with a producer and every worker draining;  *)
(*   SpecLife   the lifecycle: initialize, then start() and stop() called  *)
(*              by two threads whose calls may overlap;                    *)
(*   SpecBoot   initialize, start() and stop() called by one thread, no    *)
(*              client.                                                    *)
(* Each specification holds the variables of the other parts at their      *)
(* initial values.                                                         *)
(***************************************************************************)
EXTENDS Integers, Sequences, FiniteSets, TLC

(***************************************************************************)
(* Bounds of the model.                                                    *)
(***************************************************************************)
\* log2 of the ring's SIZE template argument (SIZE must be a power of two)
RingBits == 2

\* SIZE, MASK of LockFreeRingBuffer<T, SIZE>
SIZE == 2 ^ RingBits

MASK == SIZE - 1

\* the number of items the producer pushes: more than capacity(), so that the
\* ring fills up and its indices wrap around
MaxItems == SIZE + 1

\* the value of a slot of buffer_ that was never written (value-initialised T)
NoItem == 0

\* SpecServe: thread_count, the number of clients, the records each one sends
ServeThreads == 2

ServeClients == 2

ServeRecords == 1

\* SpecLife: thread_count, the number of clients, the records each one sends,
\* and the number of start() and stop() calls made
EchoThreads == 1

EchoClients == 1

EchoRecords == 2

\* SpecReg: workers, clients, records per client and calls of register_service
RegThreads == 1

RegClients == 1

RegRecords == 2

MaxRegisterCalls == 2

\* SpecPool: the capacity of a buffer pool is 2^PoolBits; the threads that
\* call get_next_send_buffer and get_next_recv_buffer
PoolBits == 2

PoolThreads == 2

\* SpecFault: workers, clients and records per client
FaultThreads == 1

FaultClients == 1

FaultRecords == 1

\* SpecSignal: workers, clients, records per client and signals delivered
SigThreads == 1

SigClients == 1

SigRecords == 1

MaxSignals == 2

MaxDispatched == 2

\* SpecPartial: workers, clients and records per client; PartRecords records
\* of either server are more than one recv takes
PartThreads == 1

PartClients == 1

PartRecords == 4

\* SpecPair: workers, clients and records per client
PairThreads == 2

PairClients == 1

PairRecords == 2

\* SpecQueue: the worker threads, each of which drains message_queue_
QueueThreads == 2

BootThreads == 1

LifeThreads == 1

LifeClients == 1

LifeRecords == 1

MaxStartCalls == 2

MaxStopCalls == 2

Max(a, b) == IF a >= b THEN a ELSE b

Min(a, b) == IF a <= b THEN a ELSE b

MaxClients ==
    Max(Max(ServeClients, PairClients),
        Max(Max(EchoClients, RegClients), Max(LifeClients, Max(FaultClients, SigClients))))

Clients == 1 .. MaxClients

\* the std::thread objects ever created
MaxThreads ==
    Max(Max(Max(ServeThreads, PairThreads),
            Max(EchoThreads, Max(RegThreads, Max(FaultThreads, SigThreads)))),
        Max(LifeThreads, BootThreads) * MaxStartCalls)

Threads == 1 .. MaxThreads

\* the threads that call initialize / start / stop: main, and a second one
\* (the signal handler, the destructor)
Callers == {1, 2}

\* descriptor numbers: 0..2 are the standard streams
FirstFd == 3

Fds == FirstFd .. (FirstFd + 1 + MaxClients)

\* Connection objects (make_unique) ever allocated; 0 is nullptr
ConnIds == 1 .. MaxClients

VARIABLES
    \* ---- LockFreeRingBuffer ----
    buffer_,        \* std::array<T, SIZE>: [0..SIZE-1 -> item]
    head_,          \* std::atomic<size_t> head_
    tail_,          \* std::atomic<size_t> tail_
    pushPc,         \* the producer's position inside push()
    current_tail,   \* push(): local current_tail
    next_tail,      \* push(): local next_tail
    pushItem,       \* push(): the argument item
    pushRet,        \* the result of the producer's last completed push()
    popPc,          \* the consumer's position inside pop()
    current_head,   \* pop(): local current_head
    popOut,         \* pop(): the caller's output argument `item`
    popRet,         \* the result of the consumer's last completed pop()
    pushed,         \* history: the items of the push() calls that returned true
    popped,         \* history: the items of the pop() calls that returned true
    overwrote,      \* history: push() wrote a slot holding an item not yet popped
    mq,             \* message_queue_: the position and the locals of each worker
                    \* inside process_message_queue
    \* ---- the server object (HFTServer / UltraHFTServer) ----
    flavour,        \* "hft" (hft_server.cpp) or "ultra" (ultra_hft_server.cpp)
    running_,       \* std::atomic<bool> running_
    server_socket_, \* int server_socket_
    epoll_fd_,      \* int epoll_fd_
    thread_count_,  \* thread_count_
    services_,      \* hft: std::unordered_map<MessageType, shared_ptr<IMessageService>>
                    \* (NoService: no entry)
    worker_threads_,\* std::vector<std::thread>: the thread ids, in order
    connections_,   \* hft: unordered_map fd -> Connection (0: no entry);
                    \* ultra: vector<unique_ptr<UltraConnection>>
    conn,           \* the heap: Connection objects by id
    nConn,          \* the number of Connection objects allocated so far
    connection_count_, \* ultra: std::atomic<size_t> connection_count_
    total_messages, \* stats_.total_messages_processed / stats_.total_messages
    active_connections, \* ultra: stats_.active_connections;
                    \* hft: stats_.total_connections (printed as "Active Connections")
    peak_connections, \* stats_.peak_connections
    connections_mutex_, \* hft: TRUE while held
    stats_mutex_,   \* hft: TRUE while held
    crashed,        \* the process was terminated (std::terminate, SIGSEGV)
    \* ---- threads ----
    th,             \* worker threads: state, position and locals
    cp,             \* calling threads: position and locals
    \* ---- the kernel and the clients ----
    k,              \* descriptor table, epoll interest and ready lists, backlog
    cl,             \* the clients: state, records sent, bytes read by the
                    \* server, acknowledgements received
    \* ---- history ----
    h,              \* counters and flags that record what happened
    \* ---- the buffer pool (ultra_hft_server.h:186-189) ----
    send_buffer_index_, \* std::atomic<size_t> send_buffer_index_
    recv_buffer_index_, \* std::atomic<size_t> recv_buffer_index_
    pu,             \* the callers of get_next_*_buffer: the slot each holds
    ph,             \* history: the slots each pool handed out last
    \* ---- the dispatcher of HFTServer::handle_client_events, on its own ----
    dsp,            \* bytes_read, the type tag read, and what was dispatched
    \* ---- main (main.cpp, ultra_main.cpp) ----
    g_server,       \* the global server pointer: TRUE when not nullptr
    mainPc,         \* where main() is
    mainRet,        \* main's exit code, NoExit while it has not returned
    sg              \* the signal whose handler runs, and the signals handled

ringVars == <<buffer_, head_, tail_, pushPc, current_tail, next_tail, pushItem,
              pushRet, popPc, current_head, popOut, popRet, pushed, popped,
              overwrote, mq>>

srvVars == <<flavour, running_, server_socket_, epoll_fd_, thread_count_, services_,
             worker_threads_, connections_, conn, nConn, connection_count_,
             total_messages, active_connections, peak_connections,
             connections_mutex_, stats_mutex_, crashed, th, cp, k, cl, h>>

\* the buffer pool of UltraHFTServer and its callers
poolVars == <<send_buffer_index_, recv_buffer_index_, pu, ph>>

\* main() of either program
mainVars == <<g_server, mainPc, mainRet, sg>>

sideVars == <<poolVars, dsp, mainVars>>

vars == <<ringVars, srvVars, sideVars>>

cfgVars == <<flavour, thread_count_, services_>>

objVars == <<connections_, conn, nConn, connection_count_>>

statVars == <<total_messages, active_connections, peak_connections>>

mtxVars == <<connections_mutex_, stats_mutex_>>

(***************************************************************************)
(* LockFreeRingBuffer (ultra_hft_server.h:20-76)                           *)
(***************************************************************************)
Slots == 0 .. (SIZE - 1)

\* an index advanced without the mask
NextIndexNoMask(i) == i + 1

\* (i + 1) & MASK, for i < SIZE
NextIndex(i) == (i + 1) % SIZE

\* the slots that hold an item pushed and not yet popped: head_ .. tail_-1
LiveSlots == { s \in Slots : ((s - head_) % SIZE) < ((tail_ - head_) % SIZE) }

\* empty(): head_ == tail_
empty == head_ = tail_

\* full(): ((tail_ + 1) & MASK) == head_
full == NextIndex(tail_) = head_

\* a plausible slip in size(): the difference returned without the mask
sizeNoMask == tail_ - head_

\* size(): (tail - head) & MASK
size == (tail_ - head_) % SIZE

\* capacity(): SIZE - 1
capacity == SIZE - 1

\* a plausible slip in push(): the comparison made without masking next_tail
PushFullNoMask(cur, head) == (cur + 1) = head

\* push(), line 37: next_tail == head_.load(acquire)
PushFull(cur, head) == NextIndex(cur) = head

\* a plausible slip in pop(): the empty test made one slot too early
PopEmptyOffByOne(cur, tail) == NextIndex(cur) = tail

\* pop(), line 49: current_head == tail_.load(acquire)
PopEmpty(cur, tail) == cur = tail

\* the workers that call process_message_queue
QueueWorkers == 1 .. QueueThreads

\* a worker outside process_message_queue; msg is its local UltraMessage*
MqInit == [pc |-> "idle", current_head |-> 0, msg |-> NoItem]

RingInit ==
    /\ buffer_ = [s \in Slots |-> NoItem]
    /\ head_ = 0
    /\ tail_ = 0
    /\ pushPc = "idle"
    /\ current_tail = 0
    /\ next_tail = 0
    /\ pushItem = NoItem
    /\ pushRet = "none"
    /\ popPc = "idle"
    /\ current_head = 0
    /\ popOut = NoItem
    /\ popRet = "none"
    /\ pushed = <<>>
    /\ popped = <<>>
    /\ overwrote = FALSE
    /\ mq = [w \in QueueWorkers |-> MqInit]

\* push(), lines 34-35: the producer calls push(item) and loads tail_.
\* The items pushed are 1, 2, ... in this order; a push that returned false
\* is retried with the same item.
PushLoadTail ==
    /\ pushPc = "idle"
    /\ Len(pushed) < MaxItems
    /\ pushItem' = Len(pushed) + 1
    /\ current_tail' = tail_
    /\ next_tail' = NextIndex(tail_)
    /\ pushPc' = "check"
    /\ UNCHANGED <<buffer_, head_, tail_, pushRet, popPc, current_head, popOut,
                   popRet, pushed, popped, overwrote>>
    /\ UNCHANGED <<mq, srvVars, sideVars>>

\* push(), lines 37-39: load head_ and return false when the ring is full
PushCheck ==
    /\ pushPc = "check"
    /\ IF PushFull(current_tail, head_)
          THEN /\ pushPc' = "idle"
               /\ pushRet' = "false"
          ELSE /\ pushPc' = "write"
               /\ pushRet' = pushRet
    /\ UNCHANGED <<buffer_, head_, tail_, current_tail, next_tail, pushItem,
                   popPc, current_head, popOut, popRet, pushed, popped, overwrote>>
    /\ UNCHANGED <<mq, srvVars, sideVars>>

\* push(), line 41: buffer_[current_tail] = item
PushWrite ==
    /\ pushPc = "write"
    /\ buffer_' = [buffer_ EXCEPT ![current_tail] = pushItem]
    /\ overwrote' = (overwrote \/ current_tail \in LiveSlots)
    /\ pushPc' = "store"
    /\ UNCHANGED <<head_, tail_, current_tail, next_tail, pushItem, pushRet,
                   popPc, current_head, popOut, popRet, pushed, popped>>
    /\ UNCHANGED <<mq, srvVars, sideVars>>

\* push(), lines 42-43: tail_.store(next_tail, release); return true
PushStore ==
    /\ pushPc = "store"
    /\ tail_' = next_tail
    /\ pushed' = Append(pushed, pushItem)
    /\ pushRet' = "true"
    /\ pushPc' = "idle"
    /\ UNCHANGED <<buffer_, head_, current_tail, next_tail, pushItem, popPc,
                   current_head, popOut, popRet, popped, overwrote>>
    /\ UNCHANGED <<mq, srvVars, sideVars>>

\* pop(), line 47: the consumer calls pop(item) and loads head_
PopLoadHead ==
    /\ popPc = "idle"
    /\ Len(popped) < MaxItems
    /\ current_head' = head_
    /\ popPc' = "check"
    /\ UNCHANGED <<buffer_, head_, tail_, pushPc, current_tail, next_tail,
                   pushItem, pushRet, popOut, popRet, pushed, popped, overwrote>>
    /\ UNCHANGED <<mq, srvVars, sideVars>>

\* pop(), lines 49-51: load tail_ and return false when the ring is empty
PopCheck ==
    /\ popPc = "check"
    /\ IF PopEmpty(current_head, tail_)
          THEN /\ popPc' = "idle"
               /\ popRet' = "false"
          ELSE /\ popPc' = "read"
               /\ popRet' = popRet
    /\ UNCHANGED <<buffer_, head_, tail_, pushPc, current_tail, next_tail,
                   pushItem, pushRet, current_head, popOut, pushed, popped,
                   overwrote>>
    /\ UNCHANGED <<mq, srvVars, sideVars>>

\* pop(), line 53: item = buffer_[current_head]
PopRead ==
    /\ popPc = "read"
    /\ popOut' = buffer_[current_head]
    /\ popPc' = "store"
    /\ UNCHANGED <<buffer_, head_, tail_, pushPc, current_tail, next_tail,
                   pushItem, pushRet, current_head, popRet, pushed, popped,
                   overwrote>>
    /\ UNCHANGED <<mq, srvVars, sideVars>>

\* pop(), lines 54-55: head_.store((current_head + 1) & MASK, release); return true
PopStore ==
    /\ popPc = "store"
    /\ head_' = NextIndex(current_head)
    /\ popped' = Append(popped, popOut)
    /\ popRet' = "true"
    /\ popPc' = "idle"
    /\ UNCHANGED <<buffer_, tail_, pushPc, current_tail, next_tail, pushItem,
                   pushRet, current_head, popOut, pushed, overwrote>>
    /\ UNCHANGED <<mq, srvVars, sideVars>>

RingNext ==
    \/ PushLoadTail
    \/ PushCheck
    \/ PushWrite
    \/ PushStore
    \/ PopLoadHead
    \/ PopCheck
    \/ PopRead
    \/ PopStore


(***************************************************************************)
(* The kernel: descriptors, the epoll instance, the listen backlog         *)
(***************************************************************************)
\* sizeof(UltraMessage): 1048 bytes of members, alignas(64)
SizeofUltraMessage == 1088

\* sizeof(UltraOrderMessage), what send_ultra_order() sends
SizeofUltraOrderMessage == 1152

\* sizeof(hft::Message)
SizeofMessage == 1064

\* sizeof(hft::OrderMessage), what the test client's order send() sends
SizeofOrderMessage == 1120

\* HFTServer::BUFFER_SIZE, the size of recv_buffer_
BUFFER_SIZE == 4096

\* message_type as the server reads it: ORDER_NEW, or anything else
ORDER_NEW == 1

\* MessageType::ORDER_CANCEL
ORDER_CANCEL == 2

\* MessageType::ORDER_REPLACE
ORDER_REPLACE == 3

\* MessageType::MARKET_DATA
MARKET_DATA == 6

\* sizeof(hft::MarketDataMessage)
SizeofMarketDataMessage == 1152

\* the message types a service can be registered for
Tags == {ORDER_NEW, MARKET_DATA}

\* services_.find(type) == services_.end(): an empty shared_ptr
NoService == 0

\* main's order_service and market_data_service
OrderSvc == 1

MarketSvc == 2

Services == {OrderSvc, MarketSvc}

\* Message::payload is std::array<uint8_t, 1024>
PayloadMax == 1024

\* a payload_size no well-formed record carries
Oversize == 2048

\* a message_type the dispatcher does not know
OtherType == 0

\* the message_id read from bytes that are not a record's header
GarbageId == 0

\* the value 2^64 - 1 of a uint64_t that was decremented at 0 (the model's
\* integers end at 2^31 - 1)
UINT64_MAX == 2147483647

\* uint64_t arithmetic: ++ and -- wrap around
Inc64(x) == IF x = UINT64_MAX THEN 0 ELSE x + 1

Dec64(x) == IF x = 0 THEN UINT64_MAX ELSE x - 1

\* the values an uninitialized int member may hold
Indeterminate == {-1, 0}

\* the bytes one record takes on the wire
RecordWire == IF flavour = "hft" THEN SizeofOrderMessage ELSE SizeofUltraOrderMessage

\* the message_id of the n-th record of client c
MsgId(c, n) == 10 * c + n

\* the bytes of client c in the receive buffer of its socket
Avail(c) == cl[c].sent * RecordWire - cl[c].rd

KInit ==
    [kind |-> [fd \in Fds |-> "free"],
     peer |-> [fd \in Fds |-> 0],
     reg |-> [fd \in Fds |-> -1],
     et |-> [fd \in Fds |-> FALSE],
     ready |-> {},
     backlog |-> <<>>]

KFree(kk) == {fd \in Fds : kk.kind[fd] = "free"}

\* the lowest descriptor number not in use (POSIX)
KLowest(kk) == CHOOSE fd \in KFree(kk) : \A g \in KFree(kk) : fd <= g

KValid(kk, fd, kind) == fd \in Fds /\ kk.kind[fd] = kind

KOpen(kk, fd, kind, peer) == [kk EXCEPT !.kind[fd] = kind, !.peer[fd] = peer]

\* close(fd): the descriptor leaves every interest list; closing the epoll
\* descriptor drops the instance, closing the listener drops its backlog
KClose(kk, fd) ==
    IF fd \notin Fds \/ kk.kind[fd] = "free" THEN kk
    ELSE [kk EXCEPT
            !.kind[fd] = "free",
            !.peer[fd] = 0,
            !.reg = IF kk.kind[fd] = "epoll" THEN [f \in Fds |-> -1]
                    ELSE [@ EXCEPT ![fd] = -1],
            !.ready = IF kk.kind[fd] = "epoll" THEN {} ELSE @ \ {fd},
            !.backlog = IF kk.kind[fd] = "listen" THEN <<>> ELSE @]

\* EBADF: close() of a descriptor that is not open (0 is stdin, open)
BadClose(kk, fd) == fd # 0 /\ (fd \notin Fds \/ kk.kind[fd] = "free")

\* EPOLLIN holds for fd
Readable(kk, fd) ==
    \/ kk.kind[fd] = "listen" /\ kk.backlog # <<>>
    \/ kk.kind[fd] = "sock" /\ (Avail(kk.peer[fd]) > 0
                                 \/ cl[kk.peer[fd]].st \in {"closed", "reset"})

\* epoll_ctl(EPOLL_CTL_ADD): tag is data.ptr (0: nullptr), et is EPOLLET
KCtlAdd(kk, fd, tag, et) ==
    [kk EXCEPT !.reg[fd] = tag, !.et[fd] = et,
               !.ready = IF Readable(kk, fd) THEN @ \cup {fd} ELSE @]

\* epoll_ctl(EPOLL_CTL_DEL)
KCtlDel(kk, fd) ==
    IF fd \in Fds THEN [kk EXCEPT !.reg[fd] = -1, !.ready = @ \ {fd}] ELSE kk

\* new input on fd: a registered descriptor enters the ready list
KNotify(kk, fd) == IF kk.reg[fd] >= 0 THEN [kk EXCEPT !.ready = @ \cup {fd}] ELSE kk

\* what epoll_wait reports: the ready list, and every level-triggered
\* descriptor that is readable
KReported(kk) ==
    {fd \in Fds : kk.reg[fd] >= 0 /\ (fd \in kk.ready \/ (~kk.et[fd] /\ Readable(kk, fd)))}

\* the elements of a set of descriptors in increasing order
RECURSIVE SortedFds(_)
SortedFds(S) ==
    IF S = {} THEN <<>>
    ELSE LET m == CHOOSE x \in S : \A y \in S : x <= y
         IN <<m>> \o SortedFds(S \ {m})

\* the server-side socket of client c, or {}
SockOf(kk, c) == {fd \in Fds : kk.kind[fd] = "sock" /\ kk.peer[fd] = c}

InBacklog(kk, c) == \E i \in 1 .. Len(kk.backlog) : kk.backlog[i] = c

\* the clients whose connection waits in the listen backlog; a worker keeps
\* in pend those that waited when it took the listener's event
Pending(kk) == {c \in Clients : InBacklog(kk, c)}

(***************************************************************************)
(* The clients (test_client.cpp, ultra_test_client.cpp)                    *)
(***************************************************************************)
\* connect(): the kernel completes the handshake and queues the connection
ClientConnect(c) ==
    /\ cl[c].st = "idle"
    /\ \E lfd \in Fds :
         /\ k.kind[lfd] = "listen"
         /\ k' = KNotify([k EXCEPT !.backlog = Append(@, c)], lfd)
    /\ cl' = [cl EXCEPT ![c].st = "conn"]
    /\ UNCHANGED <<ringVars, sideVars, cfgVars, running_, server_socket_, epoll_fd_,
                   worker_threads_, connections_, conn, nConn,
                   connection_count_, total_messages, active_connections,
                   peak_connections, connections_mutex_, stats_mutex_, crashed,
                   th, cp, h>>

\* send(sock_fd_, &record, sizeof(record), 0) of one whole ORDER_NEW record;
\* over: the record's header carries payload_size = Oversize
ClientWrite(c, over) ==
    /\ cl[c].st = "conn"
    /\ cl[c].sent < cl[c].quota
    /\ InBacklog(k, c) \/ SockOf(k, c) # {}
    /\ cl' = [cl EXCEPT ![c].sent = @ + 1,
                        ![c].over = IF over THEN @ \cup {cl[c].sent + 1} ELSE @]
    /\ k' = IF SockOf(k, c) # {}
               THEN KNotify(k, CHOOSE fd \in SockOf(k, c) : TRUE)
               ELSE k
    /\ UNCHANGED <<ringVars, sideVars, cfgVars, running_, server_socket_, epoll_fd_,
                   worker_threads_, connections_, conn, nConn,
                   connection_count_, total_messages, active_connections,
                   peak_connections, connections_mutex_, stats_mutex_, crashed,
                   th, cp, h>>

\* send_order / send_ultra_order: a record of the test clients, payload_size 0
ClientSend(c) == ClientWrite(c, FALSE)

\* a client that writes a record whose header says payload_size = Oversize:
\* send() takes any bytes
ClientSendOversize(c) == ClientWrite(c, TRUE)

\* the peer resets the connection (its process is killed with unread data,
\* or it closes with SO_LINGER 0): the server's recv fails with ECONNRESET
ClientReset(c) ==
    /\ cl[c].st = "conn"
    /\ SockOf(k, c) # {}
    /\ cl' = [cl EXCEPT ![c].st = "reset"]
    /\ k' = KNotify(k, CHOOSE fd \in SockOf(k, c) : TRUE)
    /\ UNCHANGED <<ringVars, sideVars, cfgVars, running_, server_socket_, epoll_fd_,
                   worker_threads_, connections_, conn, nConn,
                   connection_count_, total_messages, active_connections,
                   peak_connections, connections_mutex_, stats_mutex_, crashed,
                   th, cp, h>>

\* disconnect(): close(sock_fd_), the server reads end of file
ClientClose(c) ==
    /\ cl[c].st = "conn"
    /\ cl' = [cl EXCEPT ![c].st = "closed"]
    /\ k' = IF SockOf(k, c) # {}
               THEN KNotify(k, CHOOSE fd \in SockOf(k, c) : TRUE)
               ELSE k
    /\ UNCHANGED <<ringVars, sideVars, cfgVars, running_, server_socket_, epoll_fd_,
                   worker_threads_, connections_, conn, nConn,
                   connection_count_, total_messages, active_connections,
                   peak_connections, connections_mutex_, stats_mutex_, crashed,
                   th, cp, h>>

(***************************************************************************)
(* The buffer pool: get_next_send_buffer, get_next_recv_buffer             *)
(* (ultra_hft_server.cpp:404-412, ultra_hft_server.h:186-189)              *)
(***************************************************************************)
\* send_buffer_.size() and recv_buffer_.size(): a power of two (1024 in the
\* source)
PoolCap == 2 ^ PoolBits

\* the values of a size_t index: it wraps at a power of two that is a
\* multiple of the capacity (2^64 in the source)
IndexWrap == PoolCap * 2

PoolUsers == 1 .. PoolThreads

\* a caller holds no slot; since: the allocations made from the same pool
\* after the caller got its slot, counted up to the capacity
PoolUserInit == [pool |-> "none", slot |-> -1, since |-> 0]

\* a slip: a pool whose capacity does not divide the index range
SlotOfShort(index) == index % (PoolCap - 1)

\* index % send_buffer_.size()
SlotOf(index) == index % PoolCap

\* the last PoolCap slots handed out, newest last
Recent(window, slot) ==
    LET w == Append(window, slot)
    IN IF Len(w) > PoolCap THEN Tail(w) ELSE w

\* the callers' records after caller u took slot from pool
Taken(u, pool, slot) ==
    [v \in PoolUsers |->
        IF v = u THEN [pool |-> pool, slot |-> slot, since |-> 0]
        ELSE IF pu[v].pool = pool
                THEN [pu[v] EXCEPT !.since = Min(@ + 1, PoolCap)]
                ELSE pu[v]]

\* size_t index = send_buffer_index_.fetch_add(1) % send_buffer_.size();
\* return &send_buffer_[index]
GetNextSendBuffer(u) ==
    /\ pu[u].pool = "none"
    /\ send_buffer_index_' = (send_buffer_index_ + 1) % IndexWrap
    /\ pu' = Taken(u, "send", SlotOf(send_buffer_index_))
    /\ ph' = [ph EXCEPT !.send = Recent(@, SlotOf(send_buffer_index_))]
    /\ UNCHANGED <<ringVars, srvVars, recv_buffer_index_, dsp, mainVars>>

\* size_t index = recv_buffer_index_.fetch_add(1) % recv_buffer_.size();
\* return &recv_buffer_[index]
GetNextRecvBuffer(u) ==
    /\ pu[u].pool = "none"
    /\ recv_buffer_index_' = (recv_buffer_index_ + 1) % IndexWrap
    /\ pu' = Taken(u, "recv", SlotOf(recv_buffer_index_))
    /\ ph' = [ph EXCEPT !.recv = Recent(@, SlotOf(recv_buffer_index_))]
    /\ UNCHANGED <<ringVars, srvVars, send_buffer_index_, dsp, mainVars>>

\* the caller is done with the buffer it was given (the end of
\* handle_client_events, of send_response)
PoolRelease(u) ==
    /\ pu[u].pool # "none"
    /\ pu' = [pu EXCEPT ![u] = PoolUserInit]
    /\ UNCHANGED <<ringVars, srvVars, send_buffer_index_, recv_buffer_index_, ph,
                   dsp, mainVars>>

PoolNext ==
    \E u \in PoolUsers :
       GetNextSendBuffer(u) \/ GetNextRecvBuffer(u) \/ PoolRelease(u)

(***************************************************************************)
(* The variant selection of HFTServer::handle_client_events                *)
(* (hft_server.cpp:244-277)                                                *)
(***************************************************************************)
\* nothing read yet (n: bytes_read, tag: msg->message_type, out: the overload
\* of process_client_message that was called, base: total_messages_processed
\* when recv returned)
DspInit == [n |-> 0, tag |-> 0, out |-> "idle", base |-> 0]

\* the byte counts recv can return, around each of the three sizes
DspSizes ==
    {1, SizeofMessage - 1, SizeofMessage, SizeofOrderMessage - 1, SizeofOrderMessage,
     SizeofMarketDataMessage - 1, SizeofMarketDataMessage, BUFFER_SIZE}

\* the bytes message_type can hold: the enumerators 0x01 .. 0x09 and 0xFF, and
\* a byte that is none of them
TypeBytes == (OtherType .. 9) \cup {255}

\* lines 251-253: the tags handled as an OrderMessage
OrderTags == {ORDER_NEW, ORDER_CANCEL, ORDER_REPLACE}

\* lines 245-276: which overload of process_client_message the n bytes read
\* with tag ty reach; "none": the buffer is logged as incomplete and dropped
Variant(n, ty) ==
    IF n >= SizeofMessage
       THEN IF ty \in OrderTags
               THEN IF n >= SizeofOrderMessage THEN "order" ELSE "none"
               ELSE IF ty = MARKET_DATA
                       THEN IF n >= SizeofMarketDataMessage THEN "market" ELSE "none"
                       ELSE "base"
       ELSE "none"

\* line 228: recv returns n > 0 bytes whose header shows tag ty
DspRecv(n, ty) ==
    /\ flavour = "hft"
    /\ dsp.out # "read"
    /\ total_messages < MaxDispatched
    /\ dsp' = [n |-> n, tag |-> ty, out |-> "read", base |-> total_messages]
    /\ UNCHANGED <<ringVars, srvVars, poolVars, mainVars>>

\* lines 245-276, and process_client_message's
\* stats_.total_messages_processed++ (lines 305, 341, 376)
DspDispatch ==
    /\ dsp.out = "read"
    /\ dsp' = [dsp EXCEPT !.out = Variant(dsp.n, dsp.tag)]
    /\ total_messages' = IF Variant(dsp.n, dsp.tag) = "none" THEN total_messages
                         ELSE total_messages + 1
    /\ UNCHANGED <<ringVars, poolVars, mainVars, cfgVars, running_, server_socket_,
                   epoll_fd_, worker_threads_, objVars, active_connections,
                   peak_connections, mtxVars, crashed, th, cp, k, cl, h>>

DispatchNext ==
    \/ \E n \in DspSizes : \E ty \in TypeBytes : DspRecv(n, ty)
    \/ DspDispatch

\* main has not returned
NoExit == -1

\* no handler runs (cur: the signal being handled, 0 for none; base: the
\* stop() calls made when it was delivered; ran: running_ at that moment);
\* done: the signals whose handler has returned
SgInit == [cur |-> 0, base |-> 0, ran |-> FALSE, done |-> <<>>]

(***************************************************************************)
(* Construction                                                            *)
(***************************************************************************)
ThreadInit ==
    [st |-> "none", pc |-> "none", ev |-> <<>>, i |-> 0, conn |-> 0, fd |-> -1,
     n |-> 0, mtype |-> 0, mid |-> 0, a |-> 0, b |-> 0, rec |-> <<>>,
     psize |-> 0, pend |-> {}]

ConnInit ==
    [fd |-> -1, client_id |-> 0, is_active |-> TRUE, freed |-> FALSE, closed |-> FALSE]

\* recv_buffer_ before the first recv
BufInit == [by |-> 0, rec |-> <<>>, mtype |-> 0, mid |-> 0, psize |-> 0]

HInit ==
    [dispatched |-> 0, badClose |-> FALSE, joins |-> [t \in Threads |-> 0],
     startCalls |-> 0, stopCalls |-> 0, overlap |-> FALSE, initRet |-> "none",
     stopReturned |-> FALSE, startOnInit |-> TRUE, uaf |-> FALSE, stopBadClose |-> FALSE,
     reads |-> [c \in Clients |-> <<>>], disp |-> [c \in Clients |-> <<>>],
     reclosed |-> FALSE,
     \* the calls of MessageService::on_connection_established and
     \* on_connection_closed made for each connection: the servers contain no
     \* call of either, so no step changes these
     established |-> [id \in ConnIds |-> 0], closedCalls |-> [id \in ConnIds |-> 0],
     \* register_service: the calls made and the service last passed for each
     \* type; process_message of a service: the calls made, the calls made
     \* with a payload_size above the payload's capacity, the dispatches that
     \* found no service, and whether a call went to a service other than
     \* the one last registered; replaced: a call gave a type another service
     regCalls |-> 0, lastReg |-> [ty \in Tags |-> NoService], replaced |-> FALSE,
     invoked |-> 0, oversized |-> FALSE, absent |-> 0, stale |-> FALSE,
     \* a recv returned fewer bytes than a header
     partial |-> FALSE,
     \* epoll_wait was called on a descriptor that is no epoll instance
     badPoll |-> FALSE,
     \* HFTServer's recv_buffer_: the worker that received into it last and the
     \* record it holds; clobbered: it was written during another worker's
     \* handler call
     buf |-> BufInit, clobbered |-> FALSE,
     \* an ack was written to the socket of another client
     misdirected |-> FALSE]

\* The server object after its constructor (hft_server.h:142-144,
\* ultra_hft_server.h:166-168, 195-196): HFTServer initializes its descriptors
\* to -1, UltraHFTServer leaves them uninitialized.  threads is the
\* thread_count the server is given, clients the number of clients that will
\* connect, records the number of records each of them sends.
SrvInit(threads, clients, records) ==
    /\ flavour \in {"hft", "ultra"}
    /\ running_ = FALSE
    /\ IF flavour = "hft" THEN server_socket_ = -1 ELSE server_socket_ \in Indeterminate
    /\ IF flavour = "hft" THEN epoll_fd_ = -1 ELSE epoll_fd_ \in Indeterminate
    /\ thread_count_ = threads
    /\ services_ = [ty \in Tags |-> NoService]
    /\ worker_threads_ = <<>>
    /\ connections_ = IF flavour = "hft" THEN [fd \in Fds |-> 0] ELSE <<>>
    /\ conn = [id \in ConnIds |-> ConnInit]
    /\ nConn = 0
    /\ connection_count_ = 0
    /\ total_messages = 0
    /\ active_connections = 0
    /\ peak_connections = 0
    /\ connections_mutex_ = FALSE
    /\ stats_mutex_ = FALSE
    /\ crashed = FALSE
    /\ th = [t \in Threads |-> ThreadInit]
    /\ cp = [c \in Callers |-> [pc |-> "idle", i |-> 0, fd |-> -1, t |-> 0]]
    /\ k = KInit
    /\ cl = [c \in Clients |->
               [st |-> IF c <= clients THEN "idle" ELSE "off",
                quota |-> records, sent |-> 0, rd |-> 0, acks |-> <<>>,
                over |-> {}]]
    /\ h = HInit
    /\ send_buffer_index_ = 0
    /\ recv_buffer_index_ = 0
    /\ pu = [u \in PoolUsers |-> PoolUserInit]
    /\ ph = [send |-> <<>>, recv |-> <<>>]
    /\ dsp = DspInit
    /\ g_server = FALSE
    /\ mainPc = "boot"
    /\ mainRet = NoExit
    /\ sg = SgInit

(***************************************************************************)
(* initialize (hft_server.cpp:22-84, ultra_hft_server.cpp:13-84)           *)
(***************************************************************************)
\* the steps of initialize() whose failure the code tests, in order
InitSteps ==
    IF flavour = "hft"
       THEN <<"socket", "bind", "listen", "epoll_create", "epoll_ctl">>
       ELSE <<"socket", "opts", "nonblock", "bind", "listen", "epoll_create",
              "epoll_ctl">>

InitFailPoints == {InitSteps[i] : i \in 1 .. Len(InitSteps)} \cup {"none"}

\* socket() has returned a descriptor when the failure is at a later step
InitOpensListener(failAt) == failAt # "socket"

\* epoll_create1() has returned a descriptor
InitOpensEpoll(failAt) == failAt \in {"epoll_ctl", "none"}

\* a slip: the branch of a failed epoll_create1 returns without close()
InitClosesLeak(failAt) ==
    CASE failAt \in {"opts", "nonblock", "bind", "listen"} -> {"server_socket_"}
      [] failAt = "epoll_ctl" -> {"epoll_fd_", "server_socket_"}
      [] OTHER -> {}

\* the members the failing branch passes to close() before it returns false
InitCloses(failAt) ==
    CASE failAt \in {"opts", "nonblock", "bind", "listen", "epoll_create"}
           -> {"server_socket_"}
      [] failAt = "epoll_ctl" -> {"epoll_fd_", "server_socket_"}
      [] OTHER -> {}

\* initialize(), called once by main; failAt is the step that fails
Initialize(failAt) ==
    /\ ~crashed
    /\ cp[1].pc = "idle"
    /\ h.initRet = "none"
    /\ LET lfd == KLowest(k)
           k1 == IF InitOpensListener(failAt) THEN KOpen(k, lfd, "listen", 0) ELSE k
           efd == KLowest(k1)
           k2 == IF InitOpensEpoll(failAt) THEN KOpen(k1, efd, "epoll", 0) ELSE k1
           k3 == IF failAt = "none" THEN KCtlAdd(k2, lfd, 0, flavour = "ultra") ELSE k2
           k4 == IF "epoll_fd_" \in InitCloses(failAt) THEN KClose(k3, efd) ELSE k3
           k5 == IF "server_socket_" \in InitCloses(failAt) THEN KClose(k4, lfd) ELSE k4
       IN /\ k' = k5
          /\ server_socket_' = IF InitOpensListener(failAt) THEN lfd ELSE -1
          /\ epoll_fd_' = IF InitOpensEpoll(failAt) THEN efd
                          ELSE IF failAt = "epoll_create" THEN -1 ELSE epoll_fd_
    /\ h' = [h EXCEPT !.initRet = IF failAt = "none" THEN "true" ELSE "false"]
    /\ UNCHANGED <<ringVars, sideVars, cfgVars, running_, worker_threads_, objVars, statVars,
                   mtxVars, crashed, th, cp, cl>>

(***************************************************************************)
(* start (hft_server.cpp:86-99, ultra_hft_server.cpp:86-102)               *)
(***************************************************************************)
Busy(c) == cp[c].pc # "idle"

\* thread c calls start()
CallStart(c) ==
    /\ ~crashed
    /\ cp[c].pc = "idle"
    /\ h.initRet # "none"
    /\ h.startCalls < MaxStartCalls
    /\ cp' = [cp EXCEPT ![c].pc = "sa_chk"]
    /\ h' = [h EXCEPT !.startCalls = @ + 1,
                      !.overlap = @ \/ \E d \in Callers \ {c} : Busy(d),
                      !.startOnInit = @ /\ h.initRet = "true"]
    /\ UNCHANGED <<ringVars, sideVars, cfgVars, running_, server_socket_, epoll_fd_,
                   worker_threads_, objVars, statVars, mtxVars, crashed, th, k, cl>>

\* if (running_.load()) return
StartCheck(c) ==
    /\ ~crashed
    /\ cp[c].pc = "sa_chk"
    /\ cp' = [cp EXCEPT ![c].pc = IF running_ THEN "idle" ELSE "sa_run"]
    /\ UNCHANGED <<ringVars, sideVars, cfgVars, running_, server_socket_, epoll_fd_,
                   worker_threads_, objVars, statVars, mtxVars, crashed, th, k, cl, h>>

\* running_.store(true)
StartRun(c) ==
    /\ ~crashed
    /\ cp[c].pc = "sa_run"
    /\ running_' = TRUE
    /\ cp' = [cp EXCEPT ![c].pc = "sa_spawn", ![c].i = 0]
    /\ UNCHANGED <<ringVars, sideVars, cfgVars, server_socket_, epoll_fd_, worker_threads_,
                   objVars, statVars, mtxVars, crashed, th, k, cl, h>>

\* for (i = 0; i < thread_count_; ++i) worker_threads_.emplace_back(...)
StartSpawn(c) ==
    /\ ~crashed
    /\ cp[c].pc = "sa_spawn"
    /\ IF cp[c].i < thread_count_
          THEN /\ \E t \in Threads :
                    /\ th[t].st = "none"
                    /\ \A u \in Threads : th[u].st = "none" => t <= u
                    /\ th' = [th EXCEPT ![t].st = "run", ![t].pc = "loop"]
                    /\ worker_threads_' = Append(worker_threads_, t)
               /\ cp' = [cp EXCEPT ![c].i = @ + 1]
          ELSE /\ cp' = [cp EXCEPT ![c].pc = "idle"]
               /\ UNCHANGED <<th, worker_threads_>>
    /\ UNCHANGED <<ringVars, sideVars, cfgVars, running_, server_socket_, epoll_fd_,
                   objVars, statVars, mtxVars, crashed, k, cl, h>>

(***************************************************************************)
(* stop (hft_server.cpp:101-136, ultra_hft_server.cpp:104-130)             *)
(***************************************************************************)
\* HFTServer closes the listener, joins, closes epoll, closes the connections;
\* UltraHFTServer joins, closes epoll, closes the listener
AfterRun == IF flavour = "hft" THEN "st_lsn_chk" ELSE "st_join"

AfterListener == IF flavour = "hft" THEN "st_join" ELSE "st_ret"

AfterEpoll == IF flavour = "hft" THEN "st_conns" ELSE "st_lsn_chk"

\* `fd != -1` (HFTServer), `fd >= 0` (UltraHFTServer)
FdSet(fd) == IF flavour = "hft" THEN fd # -1 ELSE fd >= 0

\* thread c calls stop()
CallStop(c) ==
    /\ ~crashed
    /\ cp[c].pc = "idle"
    /\ h.initRet # "none"
    /\ h.stopCalls < MaxStopCalls
    /\ cp' = [cp EXCEPT ![c].pc = "st_chk"]
    /\ h' = [h EXCEPT !.stopCalls = @ + 1,
                      !.overlap = @ \/ \E d \in Callers \ {c} : Busy(d)]
    /\ UNCHANGED <<ringVars, sideVars, cfgVars, running_, server_socket_, epoll_fd_,
                   worker_threads_, objVars, statVars, mtxVars, crashed, th, k, cl>>

\* if (!running_.load()) return
StopCheck(c) ==
    /\ ~crashed
    /\ cp[c].pc = "st_chk"
    /\ cp' = [cp EXCEPT ![c].pc = IF ~running_ THEN "idle" ELSE "st_run"]
    /\ UNCHANGED <<ringVars, sideVars, cfgVars, running_, server_socket_, epoll_fd_,
                   worker_threads_, objVars, statVars, mtxVars, crashed, th, k, cl, h>>

\* running_.store(false)
StopRun(c) ==
    /\ ~crashed
    /\ cp[c].pc = "st_run"
    /\ running_' = FALSE
    /\ cp' = [cp EXCEPT ![c].pc = AfterRun, ![c].i = 1]
    /\ UNCHANGED <<ringVars, sideVars, cfgVars, server_socket_, epoll_fd_, worker_threads_,
                   objVars, statVars, mtxVars, crashed, th, k, cl, h>>

\* if (server_socket_ != -1): the test
StopListenerCheck(c) ==
    /\ ~crashed
    /\ cp[c].pc = "st_lsn_chk"
    /\ cp' = [cp EXCEPT ![c].fd = server_socket_,
                        ![c].pc = IF FdSet(server_socket_) THEN "st_lsn_close"
                                  ELSE AfterListener]
    /\ UNCHANGED <<ringVars, sideVars, cfgVars, running_, server_socket_, epoll_fd_,
                   worker_threads_, objVars, statVars, mtxVars, crashed, th, k, cl, h>>

\* close(server_socket_); server_socket_ = -1
StopListenerClose(c) ==
    /\ ~crashed
    /\ cp[c].pc = "st_lsn_close"
    /\ k' = KClose(k, cp[c].fd)
    /\ h' = [h EXCEPT !.badClose = @ \/ BadClose(k, cp[c].fd),
                      !.stopBadClose = @ \/ BadClose(k, cp[c].fd)]
    /\ server_socket_' = -1
    /\ cp' = [cp EXCEPT ![c].pc = AfterListener]
    /\ UNCHANGED <<ringVars, sideVars, cfgVars, running_, epoll_fd_, worker_threads_,
                   objVars, statVars, mtxVars, crashed, th, cl>>

\* for (auto& thread : worker_threads_) if (thread.joinable())
StopJoin(c) ==
    /\ ~crashed
    /\ cp[c].pc = "st_join"
    /\ IF cp[c].i > Len(worker_threads_)
          THEN cp' = [cp EXCEPT ![c].pc = "st_clear"]
          ELSE LET t == worker_threads_[cp[c].i]
               IN IF h.joins[t] = 0
                     THEN cp' = [cp EXCEPT ![c].pc = "st_joining", ![c].t = t]
                     ELSE cp' = [cp EXCEPT ![c].i = @ + 1]
    /\ UNCHANGED <<ringVars, sideVars, cfgVars, running_, server_socket_, epoll_fd_,
                   worker_threads_, objVars, statVars, mtxVars, crashed, th, k, cl, h>>

\* thread.join(): returns once the worker has left worker_thread()
StopJoining(c) ==
    /\ ~crashed
    /\ cp[c].pc = "st_joining"
    /\ th[cp[c].t].st = "done"
    /\ h' = [h EXCEPT !.joins[cp[c].t] = @ + 1]
    /\ cp' = [cp EXCEPT ![c].pc = "st_join", ![c].i = @ + 1]
    /\ UNCHANGED <<ringVars, sideVars, cfgVars, running_, server_socket_, epoll_fd_,
                   worker_threads_, objVars, statVars, mtxVars, crashed, th, k, cl>>

\* worker_threads_.clear(): ~thread() of a joinable thread calls std::terminate
StopClear(c) ==
    /\ ~crashed
    /\ cp[c].pc = "st_clear"
    /\ IF \E i \in 1 .. Len(worker_threads_) : h.joins[worker_threads_[i]] = 0
          THEN /\ crashed' = TRUE
               /\ k' = KInit
               /\ UNCHANGED <<worker_threads_, cp>>
          ELSE /\ worker_threads_' = <<>>
               /\ cp' = [cp EXCEPT ![c].pc = "st_ep_chk"]
               /\ UNCHANGED <<crashed, k>>
    /\ UNCHANGED <<ringVars, sideVars, cfgVars, running_, server_socket_, epoll_fd_,
                   objVars, statVars, mtxVars, th, cl, h>>

\* if (epoll_fd_ != -1): the test
StopEpollCheck(c) ==
    /\ ~crashed
    /\ cp[c].pc = "st_ep_chk"
    /\ cp' = [cp EXCEPT ![c].fd = epoll_fd_,
                        ![c].pc = IF FdSet(epoll_fd_) THEN "st_ep_close" ELSE AfterEpoll]
    /\ UNCHANGED <<ringVars, sideVars, cfgVars, running_, server_socket_, epoll_fd_,
                   worker_threads_, objVars, statVars, mtxVars, crashed, th, k, cl, h>>

\* close(epoll_fd_); epoll_fd_ = -1
StopEpollClose(c) ==
    /\ ~crashed
    /\ cp[c].pc = "st_ep_close"
    /\ k' = KClose(k, cp[c].fd)
    /\ h' = [h EXCEPT !.badClose = @ \/ BadClose(k, cp[c].fd),
                      !.stopBadClose = @ \/ BadClose(k, cp[c].fd)]
    /\ epoll_fd_' = -1
    /\ cp' = [cp EXCEPT ![c].pc = AfterEpoll]
    /\ UNCHANGED <<ringVars, sideVars, cfgVars, running_, server_socket_, worker_threads_,
                   objVars, statVars, mtxVars, crashed, th, cl>>

\* the descriptors of the entries of the connection table, in increasing order
TableFds == SortedFds({fd \in Fds : connections_[fd] # 0})

RECURSIVE CloseAll(_, _)
CloseAll(kk, fds) ==
    IF fds = <<>> THEN kk ELSE CloseAll(KClose(kk, Head(fds)), Tail(fds))

\* HFTServer::stop(), lines 128-133: under connections_mutex_, close(conn->fd)
\* for every entry, then connections_.clear()
StopCloseConnections(c) ==
    /\ ~crashed
    /\ cp[c].pc = "st_conns"
    /\ flavour = "hft"
    /\ ~connections_mutex_
    /\ LET fds == [i \in 1 .. Len(TableFds) |-> conn[connections_[TableFds[i]]].fd]
           bad == \E i \in 1 .. Len(fds) :
                     \/ BadClose(k, fds[i])
                     \/ \E j \in 1 .. (i - 1) : fds[j] = fds[i]
       IN /\ k' = CloseAll(k, fds)
          /\ h' = [h EXCEPT !.badClose = @ \/ bad, !.stopBadClose = @ \/ bad]
    /\ conn' = [id \in ConnIds |->
                  IF \E fd \in Fds : connections_[fd] = id
                     THEN [conn[id] EXCEPT !.freed = TRUE, !.closed = TRUE]
                     ELSE conn[id]]
    /\ connections_' = [fd \in Fds |-> 0]
    /\ cp' = [cp EXCEPT ![c].pc = "st_ret"]
    /\ UNCHANGED <<ringVars, sideVars, cfgVars, running_, server_socket_, epoll_fd_,
                   worker_threads_, nConn, connection_count_, statVars, mtxVars,
                   crashed, th, cl>>

\* stop() returns after having shut the server down
StopReturn(c) ==
    /\ ~crashed
    /\ cp[c].pc = "st_ret"
    /\ cp' = [cp EXCEPT ![c].pc = "idle"]
    /\ h' = [h EXCEPT !.stopReturned = TRUE]
    /\ UNCHANGED <<ringVars, sideVars, cfgVars, running_, server_socket_, epoll_fd_,
                   worker_threads_, objVars, statVars, mtxVars, crashed, th, k, cl>>

(***************************************************************************)
(* worker_thread (hft_server.cpp:185-208, ultra_hft_server.cpp:132-168)    *)
(***************************************************************************)
\* what no step of a worker writes
wkFixed == <<ringVars, sideVars, cfgVars, running_, server_socket_, epoll_fd_, worker_threads_, cp>>

\* thread t leaves a handler: its locals die
Ret(t, pc) ==
    [th[t] EXCEPT !.pc = pc, !.conn = 0, !.fd = -1, !.n = 0, !.mtype = 0, !.mid = 0,
                  !.a = 0, !.b = 0, !.rec = <<>>, !.psize = 0, !.pend = {}]

\* the events epoll_wait hands out: data.ptr of every reported descriptor
Events(kk) ==
    LET fds == SortedFds(KReported(kk))
    IN [i \in 1 .. Len(fds) |-> kk.reg[fds[i]]]

\* while (running_.load()) epoll_wait(epoll_fd_, ..., 1): the thread leaves
\* when running_ is false or epoll_wait fails with an error other than EINTR;
\* a timeout returns no event
WLoop(t) ==
    /\ ~crashed
    /\ th[t].pc = "loop"
    /\ IF ~running_ \/ ~KValid(k, epoll_fd_, "epoll")
          THEN /\ th' = [th EXCEPT ![t].pc = "done", ![t].st = "done"]
               /\ k' = k
               /\ h' = [h EXCEPT !.badPoll = @ \/ running_]
          ELSE /\ KReported(k) # {}
               /\ th' = [th EXCEPT ![t].ev = Events(k), ![t].pc = "ev"]
               /\ k' = [k EXCEPT !.ready = @ \ KReported(k)]
               /\ h' = h
    /\ UNCHANGED <<wkFixed, objVars, statVars, mtxVars, crashed, cl>>

\* for (i < nfds): data.ptr == nullptr is the listener, else a connection;
\* UltraHFTServer tests conn->is_active first
WEvent(t) ==
    /\ ~crashed
    /\ th[t].pc = "ev"
    /\ IF th[t].ev = <<>>
          THEN /\ th' = [th EXCEPT ![t].pc = "loop"]
               /\ UNCHANGED <<crashed, k, h>>
          ELSE LET tag == Head(th[t].ev)
                   rest == [th[t] EXCEPT !.ev = Tail(@)]
               IN IF tag = 0
                     THEN /\ th' = [th EXCEPT ![t] = [rest EXCEPT !.pc = "acc",
                                                                       !.pend = Pending(k)]]
                          /\ UNCHANGED <<crashed, k, h>>
                     ELSE IF conn[tag].freed
                        \* conn->fd of a destroyed Connection: the stale value,
                        \* or a fault
                        THEN \/ /\ th' = [th EXCEPT ![t] = [rest EXCEPT !.pc = "hce_find",
                                                                       !.fd = conn[tag].fd]]
                                /\ h' = [h EXCEPT !.uaf = TRUE]
                                /\ UNCHANGED <<crashed, k>>
                             \/ /\ crashed' = TRUE
                                /\ k' = KInit
                                /\ h' = [h EXCEPT !.uaf = TRUE]
                                /\ th' = th
                        ELSE /\ th' = [th EXCEPT ![t] =
                                        IF flavour = "ultra" /\ ~conn[tag].is_active
                                           THEN rest
                                           ELSE [rest EXCEPT !.pc = "hce_find",
                                                             !.fd = conn[tag].fd]]
                             /\ UNCHANGED <<crashed, k, h>>
    /\ UNCHANGED <<wkFixed, objVars, statVars, mtxVars, cl>>

(***************************************************************************)
(* accept_connections (hft_server.cpp:138-183, ultra_hft_server.cpp:170-220)*)
(***************************************************************************)
\* the addresses std::make_unique<Connection>() can return: as many as there
\* can be Connection objects
Addrs == 1 .. MaxClients

\* the addresses of the Connection objects that are not destroyed
LiveAddrs == {conn[i].client_id : i \in {j \in 1 .. nConn : ~conn[j].freed}}

\* HFTServer, line 160: client_id = reinterpret_cast<uint64_t>(conn.get()), the
\* address of the new object, which is any address no live object has;
\* UltraHFTServer, line 193: client_id = connection_count_.fetch_add(1)
NewClientId ==
    IF flavour = "hft" THEN Addrs \ LiveAddrs ELSE {connection_count_}

\* accept() and epoll_ctl(ADD) of the new socket.  HFTServer accepts once per
\* event; UltraHFTServer loops until accept() fails
WAccept(t) ==
    /\ ~crashed
    /\ th[t].pc = "acc"
    /\ IF ~KValid(k, server_socket_, "listen") \/ k.backlog = <<>>
          THEN /\ th' = [th EXCEPT ![t] = Ret(t, "ev")]
               /\ UNCHANGED <<k, conn, nConn, connection_count_>>
          ELSE LET c == Head(k.backlog)
                   fd == KLowest(k)
                   id == nConn + 1
                   k1 == KOpen([k EXCEPT !.backlog = Tail(@)], fd, "sock", c)
                   added == KValid(k, epoll_fd_, "epoll")
               IN /\ nConn' = id
                  /\ connection_count_' = connection_count_ + 1
                  /\ \E cid \in NewClientId :
                        conn' = [conn EXCEPT ![id] =
                                   [fd |-> fd,
                                    client_id |-> cid,
                                    is_active |-> TRUE,
                                    freed |-> ~added,
                                    closed |-> ~added]]
                  /\ k' = IF added THEN KCtlAdd(k1, fd, id, TRUE) ELSE KClose(k1, fd)
                  /\ th' = [th EXCEPT ![t] =
                              IF added
                                 THEN [@ EXCEPT !.conn = id, !.fd = fd,
                                                !.pc = IF flavour = "hft" THEN "acc_ins"
                                                       ELSE "acc_push"]
                                 ELSE IF flavour = "hft" THEN Ret(t, "ev") ELSE @]
    /\ UNCHANGED <<wkFixed, connections_, statVars, mtxVars, crashed, cl, h>>

\* HFTServer, lines 175-177: lock connections_mutex_;
\* connections_[client_fd] = std::move(conn); stats_.total_connections++
WInsert(t) ==
    /\ ~crashed
    /\ th[t].pc = "acc_ins"
    /\ ~connections_mutex_
    /\ connections_mutex_' = TRUE
    /\ connections_' = [connections_ EXCEPT ![th[t].fd] = th[t].conn]
    /\ conn' = IF connections_[th[t].fd] # 0
                  THEN [conn EXCEPT ![connections_[th[t].fd]].freed = TRUE]
                  ELSE conn
    /\ active_connections' = active_connections + 1
    /\ th' = [th EXCEPT ![t].pc = "acc_peak"]
    /\ UNCHANGED <<wkFixed, nConn, connection_count_, total_messages, peak_connections,
                   stats_mutex_, crashed, k, cl, h>>

\* HFTServer, line 178: peak_connections = max(peak_connections,
\* connections_.size()); unlock
WPeak(t) ==
    /\ ~crashed
    /\ th[t].pc = "acc_peak"
    /\ peak_connections' = Max(peak_connections,
                               Cardinality({fd \in Fds : connections_[fd] # 0}))
    /\ connections_mutex_' = FALSE
    /\ th' = [th EXCEPT ![t] = Ret(t, "ev")]
    /\ UNCHANGED <<wkFixed, objVars, total_messages, active_connections, stats_mutex_,
                   crashed, k, cl, h>>

\* UltraHFTServer, lines 210-213: connections_.push_back(std::move(conn));
\* active = stats_.active_connections.fetch_add(1) + 1
WPush(t) ==
    /\ ~crashed
    /\ th[t].pc = "acc_push"
    /\ connections_' = Append(connections_, th[t].conn)
    /\ active_connections' = Inc64(active_connections)
    /\ th' = [th EXCEPT ![t].a = Inc64(active_connections),
                        ![t].pc = "acc_ld"]
    /\ UNCHANGED <<wkFixed, conn, nConn, connection_count_, total_messages,
                   peak_connections, mtxVars, crashed, k, cl, h>>

\* line 214: peak = stats_.peak_connections.load()
WPeakLoad(t) ==
    /\ ~crashed
    /\ th[t].pc = "acc_ld"
    /\ th' = [th EXCEPT ![t].b = peak_connections, ![t].pc = "acc_cas"]
    /\ UNCHANGED <<wkFixed, objVars, statVars, mtxVars, crashed, k, cl, h>>

\* line 215: while (active > peak && !compare_exchange_weak(peak, active)) {}
WPeakCas(t) ==
    /\ ~crashed
    /\ th[t].pc = "acc_cas"
    /\ IF th[t].a > th[t].b
          THEN IF peak_connections = th[t].b
                  THEN /\ peak_connections' = th[t].a
                       /\ th' = [th EXCEPT ![t].pc = "acc_log"]
                  ELSE /\ th' = [th EXCEPT ![t].b = peak_connections]
                       /\ UNCHANGED peak_connections
          ELSE /\ th' = [th EXCEPT ![t].pc = "acc_log"]
               /\ UNCHANGED peak_connections
    /\ UNCHANGED <<wkFixed, objVars, total_messages, active_connections, mtxVars,
                   crashed, k, cl, h>>

\* lines 217-218: conn->client_id through the unique_ptr that push_back emptied:
\* a null dereference, which faults or reads whatever is at the address
WAcceptLog(t) ==
    /\ ~crashed
    /\ th[t].pc = "acc_log"
    /\ \/ /\ th' = [th EXCEPT ![t] = [Ret(t, "acc") EXCEPT !.pend = th[t].pend]]
          /\ UNCHANGED <<crashed, k>>
       \/ /\ crashed' = TRUE
          /\ k' = KInit
          /\ th' = th
    /\ UNCHANGED <<wkFixed, objVars, statVars, mtxVars, cl, h>>

(***************************************************************************)
(* handle_client_events (hft_server.cpp:210-278,                           *)
(* ultra_hft_server.cpp:222-261)                                           *)
(***************************************************************************)
\* the first element of the vector whose fd is client_fd, or 0
RECURSIVE FindByFd(_, _)
FindByFd(seq, fd) ==
    IF seq = <<>> THEN 0
    ELSE IF conn[Head(seq)].fd = fd THEN Head(seq)
    ELSE FindByFd(Tail(seq), fd)

\* HFTServer: connections_.find(client_fd) under connections_mutex_;
\* UltraHFTServer: a scan of the vector for c->fd == client_fd, no lock
WFind(t) ==
    /\ ~crashed
    /\ th[t].pc = "hce_find"
    /\ flavour = "hft" => ~connections_mutex_
    /\ LET found == IF flavour = "hft" THEN connections_[th[t].fd]
                    ELSE FindByFd(connections_, th[t].fd)
       IN th' = [th EXCEPT ![t] = IF found = 0 THEN Ret(t, "ev")
                                  ELSE [@ EXCEPT !.conn = found, !.pc = "recv"]]
    /\ UNCHANGED <<wkFixed, objVars, statVars, mtxVars, crashed, k, cl, h>>

\* the size recv() is given: recv_buffer_.size(), sizeof(UltraMessage)
RecvSize == IF flavour = "hft" THEN BUFFER_SIZE ELSE SizeofUltraMessage

\* the bytes of a header: sizeof(Message), sizeof(UltraMessage)
HeaderSize == IF flavour = "hft" THEN SizeofMessage ELSE SizeofUltraMessage

\* a dispatcher without the tests on bytes_read
CompleteAlways(n, ty) == TRUE

\* bytes_read is enough for the record to be handed to the dispatcher:
\* HFTServer wants sizeof(OrderMessage) for an order tag, sizeof(MarketDataMessage)
\* for MARKET_DATA and sizeof(Message) for any other (hft_server.cpp:245-272),
\* UltraHFTServer wants sizeof(UltraMessage) (ultra_hft_server.cpp:248)
Complete(n, ty) ==
    IF flavour = "hft" THEN Variant(n, ty) # "none" ELSE n >= SizeofUltraMessage

\* the message_type values the header at stream offset off can show: a header
\* read at a record boundary is the client's, elsewhere the bytes are payload
TypesAt(off) == IF off % RecordWire = 0 THEN {ORDER_NEW} ELSE {ORDER_NEW, OtherType}

\* the payload_size of the header at stream offset off
PayloadSizeAt(c, off) ==
    IF off % RecordWire = 0 /\ ((off \div RecordWire) + 1) \in cl[c].over
       THEN Oversize ELSE 0

\* the message_id of the header at stream offset off
IdAt(c, off) == IF off % RecordWire = 0 THEN MsgId(c, (off \div RecordWire) + 1) ELSE GarbageId

\* what recv(fd, ..., MSG_DONTWAIT) returns: "error" is -1 with an errno
\* other than EAGAIN (EBADF on a closed descriptor, ECONNRESET after the
\* peer's reset), "eof" is 0, "eagain" is -1 with EAGAIN / EWOULDBLOCK,
\* "data" a positive count
RecvResult(fd) ==
    IF ~KValid(k, fd, "sock") THEN "error"
    ELSE IF cl[k.peer[fd]].st = "reset" THEN "error"
    ELSE IF Avail(k.peer[fd]) > 0 THEN "data"
    ELSE IF cl[k.peer[fd]].st = "closed" THEN "eof"
    ELSE "eagain"

\* worker u is between its recv and the return of the handler it called
InHandler(u) == th[u].pc \in {"pm", "pm_send", "pm_wr"}

\* HFTServer, line 228: recv writes the bytes into recv_buffer_, the one
\* buffer all workers share; buf is what it holds and who wrote it, clobbered
\* whether it was written while another worker's handler was using it.
\* UltraHFTServer receives into a slot of its pool
RecvInto(t, content) ==
    IF flavour = "hft"
       THEN [h EXCEPT !.buf = content,
                      !.clobbered = @ \/ \E u \in Threads \ {t} : InHandler(u)]
       ELSE h

\* recv(client_fd, buffer, RecvSize, MSG_DONTWAIT) and the tests on bytes_read
WRecv(t) ==
    /\ ~crashed
    /\ th[t].pc = "recv"
    /\ LET fd == th[t].fd
           c == k.peer[fd]
       IN IF RecvResult(fd) = "error"
             \* HFTServer logs and returns, UltraHFTServer closes the connection
             THEN /\ th' = [th EXCEPT ![t] = IF flavour = "hft" THEN Ret(t, "ev")
                                             ELSE [@ EXCEPT !.pc = "close"]]
                  /\ UNCHANGED <<cl, h>>
          ELSE IF RecvResult(fd) \in {"eof", "eagain"}
             \* end of file closes the connection; EAGAIN ends the handler
             THEN /\ th' = [th EXCEPT ![t] = IF RecvResult(fd) = "eof"
                                                THEN [@ EXCEPT !.pc = "close"]
                                                ELSE Ret(t, "ev")]
                  /\ UNCHANGED <<cl, h>>
          ELSE LET n == Min(Avail(c), RecvSize)
               IN /\ cl' = [cl EXCEPT ![c].rd = @ + n]
                  /\ \E ty \in TypesAt(cl[c].rd) :
                       LET hb == RecvInto(t, [by |-> t, rec |-> <<c, cl[c].rd>>,
                                              mtype |-> ty, mid |-> IdAt(c, cl[c].rd),
                                              psize |-> PayloadSizeAt(c, cl[c].rd)])
                       IN IF Complete(n, ty)
                          THEN /\ th' = [th EXCEPT ![t].n = n, ![t].mtype = ty,
                                                   ![t].mid = IdAt(c, cl[c].rd),
                                                   ![t].rec = <<c, cl[c].rd>>,
                                                   ![t].psize = PayloadSizeAt(c, cl[c].rd),
                                                   ![t].pc = "pm"]
                               /\ h' = [hb EXCEPT !.dispatched = @ + 1,
                                                  !.reads[c] = Append(@, cl[c].rd)]
                          ELSE /\ th' = [th EXCEPT ![t] =
                                           IF flavour = "hft" THEN [@ EXCEPT !.pc = "recv"]
                                           ELSE Ret(t, "ev")]
                               /\ h' = [hb EXCEPT !.partial = @ \/ n < HeaderSize]
    /\ UNCHANGED <<wkFixed, objVars, statVars, mtxVars, crashed, k>>

(***************************************************************************)
(* process_client_message (hft_server.cpp:280-383), process_message and    *)
(* process_order_message (ultra_hft_server.cpp:263-300)                    *)
(***************************************************************************)
\* a slip: a lock_guard that does not wait
StatsLockableAlways(m) == TRUE

\* std::lock_guard<std::mutex> lock(stats_mutex_) can be taken
StatsLockable(m) == ~m

\* a slip: a lookup that falls back to the order service
FindOrDefault(reg, ty) ==
    IF ty \in Tags /\ reg[ty] # NoService THEN reg[ty] ELSE OrderSvc

\* services_.find(msg.message_type): the service of the entry, or none
Find(reg, ty) == IF ty \in Tags THEN reg[ty] ELSE NoService

\* UltraHFTServer::process_message's switch: case 1 is the order handler,
\* case 2 the market data handler, everything else is logged as unknown
UltraSwitch(ty) ==
    IF ty = 1 THEN OrderSvc ELSE IF ty = 2 THEN MarketSvc ELSE NoService

\* the handler a record of type ty is passed to: HFTServer looks the type up
\* in services_ (hft_server.cpp:285-297), UltraHFTServer switches on it
\* (ultra_hft_server.cpp:267-277)
HandlerFor(ty) ==
    IF flavour = "hft" THEN Find(services_, ty) ELSE UltraSwitch(ty)

\* the service last registered for ty, as the calls of register_service
\* have it; UltraHFTServer's switch is fixed
LastRegistered(ty) ==
    IF flavour = "hft" THEN (IF ty \in Tags THEN h.lastReg[ty] ELSE NoService)
    ELSE UltraSwitch(ty)

\* the client an ack written to conn->fd reaches: the peer of whatever socket
\* that descriptor number is now
AckTo(id) ==
    IF KValid(k, conn[id].fd, "sock") THEN {k.peer[conn[id].fd]} ELSE {}

\* send_response, line 340: !conn->is_active.load() returns false
SendAllowed(id) == conn[id].is_active

\* the record worker t's handler is handed: the one t received, or, when
\* another worker has received into HFTServer's recv_buffer_ since, what that
\* recv left there (a data race: the handler reads either)
Handed(t) ==
    {[rec |-> th[t].rec, mtype |-> th[t].mtype, psize |-> th[t].psize]}
    \cup (IF flavour = "hft" /\ h.buf.by # t
             THEN {[rec |-> h.buf.rec, mtype |-> h.buf.mtype, psize |-> h.buf.psize]}
             ELSE {})

\* the record is passed to its handler, if it has one.
\* HFTServer: the service only logs; lock stats_mutex_ and read
\* total_messages_processed.  UltraHFTServer: either handler calls
\* send_response, which tests is_active, and the send follows in a step of
\* its own; any other record is only counted by total_messages.fetch_add(1)
WProcess(t) ==
    /\ ~crashed
    /\ th[t].pc = "pm"
    /\ IF flavour = "hft"
          THEN /\ StatsLockable(stats_mutex_)
               /\ stats_mutex_' = TRUE
               /\ th' = [th EXCEPT ![t].a = total_messages, ![t].pc = "pm_wr"]
               /\ UNCHANGED <<total_messages, cl>>
          ELSE IF UltraSwitch(th[t].mtype) # NoService /\ SendAllowed(th[t].conn)
                  THEN /\ th' = [th EXCEPT ![t].pc = "pm_send"]
                       /\ UNCHANGED <<total_messages, cl, stats_mutex_>>
                  ELSE /\ total_messages' = Inc64(total_messages)
                       /\ th' = [th EXCEPT ![t] = Ret(t, "ev")]
                       /\ UNCHANGED <<cl, stats_mutex_>>
    /\ \E m \in Handed(t) :
          LET svc == HandlerFor(m.mtype)
          IN h' = [h EXCEPT !.disp[m.rec[1]] = Append(@, m.rec[2]),
                            !.invoked = IF svc # NoService THEN @ + 1 ELSE @,
                            !.absent = IF svc = NoService THEN @ + 1 ELSE @,
                            !.oversized = @ \/ (svc # NoService /\ m.psize > PayloadMax),
                            !.stale = @ \/ svc # LastRegistered(m.mtype)]
    /\ UNCHANGED <<wkFixed, objVars, active_connections, peak_connections,
                   connections_mutex_, crashed, k>>

\* UltraHFTServer, send_response line 342: send(conn->fd, ...) of the ack with
\* the request's message_id, to whatever socket conn->fd is by now; then
\* process_message counts the record.  misdirected: an ack reached a client
\* other than the one whose request it answers
WSend(t) ==
    /\ ~crashed
    /\ th[t].pc = "pm_send"
    /\ cl' = [c \in Clients |->
                IF c \in AckTo(th[t].conn) /\ cl[c].st = "conn"
                   THEN [cl[c] EXCEPT !.acks = Append(@, th[t].mid)]
                   ELSE cl[c]]
    /\ h' = [h EXCEPT !.misdirected =
                        @ \/ \E c \in AckTo(th[t].conn) : c # th[t].rec[1]]
    /\ total_messages' = Inc64(total_messages)
    /\ th' = [th EXCEPT ![t] = Ret(t, "ev")]
    /\ UNCHANGED <<wkFixed, objVars, active_connections, peak_connections, mtxVars,
                   crashed, k>>

\* HFTServer: stats_.total_messages_processed++ is the write of the value read
\* plus one; the lock_guard releases the mutex
WCount(t) ==
    /\ ~crashed
    /\ th[t].pc = "pm_wr"
    /\ total_messages' = Inc64(th[t].a)
    /\ stats_mutex_' = FALSE
    /\ th' = [th EXCEPT ![t].pc = "recv", ![t].a = 0, ![t].n = 0, ![t].mtype = 0,
                        ![t].mid = 0, ![t].rec = <<>>, ![t].psize = 0]
    /\ UNCHANGED <<wkFixed, objVars, active_connections, peak_connections,
                   connections_mutex_, crashed, k, cl, h>>

(***************************************************************************)
(* close_connection (hft_server.cpp:395-403, ultra_hft_server.cpp:346-362) *)
(***************************************************************************)
\* epoll_ctl(EPOLL_CTL_DEL, conn->fd); close(conn->fd); UltraHFTServer first
\* stores is_active = false
WClose(t) ==
    /\ ~crashed
    /\ th[t].pc = "close"
    /\ LET id == th[t].conn
           fd == conn[id].fd
       IN /\ k' = KClose(KCtlDel(k, fd), fd)
          /\ h' = [h EXCEPT !.badClose = @ \/ BadClose(k, fd),
                            !.uaf = @ \/ conn[id].freed,
                            !.reclosed = @ \/ conn[id].closed]
          /\ conn' = [conn EXCEPT ![id].closed = TRUE,
                                    ![id].is_active = IF flavour = "ultra" THEN FALSE ELSE @]
    /\ th' = [th EXCEPT ![t].pc = IF flavour = "hft" THEN "erase" ELSE "sub"]
    /\ UNCHANGED <<wkFixed, connections_, nConn, connection_count_, statVars, mtxVars,
                   crashed, cl>>

\* HFTServer: connections_.erase(conn.fd) under connections_mutex_, which
\* destroys the Connection the entry owns
WErase(t) ==
    /\ ~crashed
    /\ th[t].pc = "erase"
    /\ ~connections_mutex_
    /\ LET fd == conn[th[t].conn].fd
       IN /\ connections_' = [connections_ EXCEPT ![fd] = 0]
          /\ conn' = IF connections_[fd] # 0
                        THEN [conn EXCEPT ![connections_[fd]].freed = TRUE]
                        ELSE conn
          /\ h' = [h EXCEPT !.uaf = @ \/ conn[th[t].conn].freed]
    /\ th' = [th EXCEPT ![t] = Ret(t, "ev")]
    /\ UNCHANGED <<wkFixed, nConn, connection_count_, statVars, mtxVars, crashed, k, cl>>

\* UltraHFTServer: stats_.active_connections.fetch_sub(1)
WSub(t) ==
    /\ ~crashed
    /\ th[t].pc = "sub"
    /\ active_connections' = Dec64(active_connections)
    /\ th' = [th EXCEPT ![t] = Ret(t, "ev")]
    /\ UNCHANGED <<wkFixed, objVars, total_messages, peak_connections, mtxVars, crashed,
                   k, cl, h>>

(***************************************************************************)
(* The programs                                                            *)
(***************************************************************************)
WorkerStep(t) ==
    \/ WLoop(t) \/ WEvent(t)
    \/ WAccept(t) \/ WInsert(t) \/ WPeak(t)
    \/ WPush(t) \/ WPeakLoad(t) \/ WPeakCas(t) \/ WAcceptLog(t)
    \/ WFind(t) \/ WRecv(t) \/ WProcess(t) \/ WSend(t) \/ WCount(t)
    \/ WClose(t) \/ WErase(t) \/ WSub(t)

ClientStep(c) == ClientConnect(c) \/ ClientSend(c) \/ ClientClose(c)

StartStep(c) == CallStart(c) \/ StartCheck(c) \/ StartRun(c) \/ StartSpawn(c)

\* the steps of a stop() call that has been entered
StopBody(c) ==
    \/ StopCheck(c) \/ StopRun(c)
    \/ StopListenerCheck(c) \/ StopListenerClose(c)
    \/ StopJoin(c) \/ StopJoining(c) \/ StopClear(c)
    \/ StopEpollCheck(c) \/ StopEpollClose(c)
    \/ StopCloseConnections(c) \/ StopReturn(c)

StopStep(c) == CallStop(c) \/ StopBody(c)

\* a slip: a registration that keeps the entry a type already has
RegisterKeepFirst(reg, ty, svc) ==
    IF reg[ty] = NoService THEN [reg EXCEPT ![ty] = svc] ELSE reg

\* services_[type] = service
RegisterUpdate(reg, ty, svc) == [reg EXCEPT ![ty] = svc]

\* HFTServer::register_service(type, service): the whole body runs under
\* services_mutex_, as the lookup of process_client_message does, so it is
\* one step for every other thread
RegisterService(ty, svc) ==
    /\ ~crashed
    /\ flavour = "hft"
    /\ h.regCalls < MaxRegisterCalls
    /\ services_' = RegisterUpdate(services_, ty, svc)
    /\ h' = [h EXCEPT !.regCalls = @ + 1, !.lastReg[ty] = svc,
                      !.replaced = @ \/ h.lastReg[ty] \notin {NoService, svc}]
    /\ UNCHANGED <<ringVars, sideVars, flavour, thread_count_, running_, server_socket_,
                   epoll_fd_, worker_threads_, objVars, statVars, mtxVars, crashed,
                   th, cp, k, cl>>

\* the registry main.cpp:76-79 builds
MainServices == [ty \in Tags |-> IF ty = ORDER_NEW THEN OrderSvc ELSE MarketSvc]

\* main() of the HFTServer registers its services after initialize() and
\* before start() (main.cpp:72-79); no other thread exists yet
MainRegister ==
    /\ flavour = "hft"
    /\ h.initRet = "true"
    /\ h.startCalls = 0
    /\ services_ # MainServices
    /\ services_' = RegisterUpdate(RegisterUpdate(services_, ORDER_NEW, OrderSvc),
                                   MARKET_DATA, MarketSvc)
    /\ h' = [h EXCEPT !.lastReg = MainServices]
    /\ UNCHANGED <<ringVars, sideVars, flavour, thread_count_, running_, server_socket_,
                   epoll_fd_, worker_threads_, objVars, statVars, mtxVars, crashed,
                   th, cp, k, cl>>

\* main() calls start() once, and only when initialize() returned true
\* (main.cpp:67-84, ultra_main.cpp:114-120)
MainStart ==
    /\ h.initRet = "true"
    /\ h.startCalls = 0
    /\ flavour = "hft" => services_ = MainServices
    /\ CallStart(1)

\* main() of either server while it serves: initialize, start, the workers
\* and the clients
ServeNext ==
    \/ \E failAt \in InitFailPoints : Initialize(failAt)
    \/ MainRegister
    \/ MainStart \/ StartCheck(1) \/ StartRun(1) \/ StartSpawn(1)
    \/ \E t \in Threads : WorkerStep(t)
    \/ \E c \in Clients : ClientStep(c)

ServeInit == RingInit /\ SrvInit(ServeThreads, ServeClients, ServeRecords)

SpecServe == ServeInit /\ [][ServeNext]_vars

\* one client that sends its records back to back on one connection
EchoInit == RingInit /\ SrvInit(EchoThreads, EchoClients, EchoRecords)

SpecEcho == EchoInit /\ [][ServeNext]_vars

\* two workers and one client that sends its records on one connection: the
\* workers can be handed notifications for the same descriptor
PairInit == RingInit /\ SrvInit(PairThreads, PairClients, PairRecords)

SpecPair == PairInit /\ [][ServeNext]_vars

\* a server whose services are registered, replaced or left out by another
\* thread while it serves a client whose records may carry any payload_size
RegStart ==
    /\ h.initRet = "true"
    /\ h.startCalls = 0
    /\ CallStart(1)

RegNext ==
    \/ \E failAt \in InitFailPoints : Initialize(failAt)
    \/ RegStart \/ StartCheck(1) \/ StartRun(1) \/ StartSpawn(1)
    \/ \E ty \in Tags : \E svc \in Services : RegisterService(ty, svc)
    \/ \E t \in Threads : WorkerStep(t)
    \/ \E c \in Clients : ClientStep(c) \/ ClientSendOversize(c)

RegInit == RingInit /\ SrvInit(RegThreads, RegClients, RegRecords)

SpecReg == RegInit /\ [][RegNext]_vars

\* the whole life of a server object: initialize, then start() and stop()
\* called from two threads
LifeNext ==
    \/ \E failAt \in InitFailPoints : Initialize(failAt)
    \/ \E c \in Callers : StartStep(c) \/ StopStep(c)
    \/ \E t \in Threads : WorkerStep(t)
    \/ \E c \in Clients : ClientStep(c)

LifeInit == RingInit /\ SrvInit(LifeThreads, LifeClients, LifeRecords)

SpecLife == LifeInit /\ [][LifeNext]_vars

\* a server object that no client reaches and one thread drives: initialize,
\* then start() and stop() one after the other
BootNext ==
    \/ \E failAt \in InitFailPoints : Initialize(failAt)
    \/ StartStep(1) \/ StopStep(1)
    \/ \E t \in Threads : WLoop(t)

BootInit == RingInit /\ SrvInit(BootThreads, 0, 0)

SpecBoot == BootInit /\ [][BootNext]_vars

(***************************************************************************)
(* process_message_queue (ultra_hft_server.cpp:321-337), called by every   *)
(* worker at the end of each round of its loop (line 158)                  *)
(***************************************************************************)
\* while (message_queue_.pop(msg)): pop(), line 47, loads head_
QPopLoadHead(w) ==
    /\ mq[w].pc = "idle"
    /\ Len(popped) < MaxItems
    /\ mq' = [mq EXCEPT ![w].current_head = head_, ![w].pc = "check"]
    /\ UNCHANGED <<buffer_, head_, tail_, pushPc, current_tail, next_tail,
                   pushItem, pushRet, popPc, current_head, popOut, popRet, pushed,
                   popped, overwrote>>
    /\ UNCHANGED <<srvVars, sideVars>>

\* pop(), lines 49-51: load tail_; an empty ring ends the while loop and the
\* worker goes round its loop to the next call
QPopCheck(w) ==
    /\ mq[w].pc = "check"
    /\ mq' = [mq EXCEPT ![w].pc = IF PopEmpty(mq[w].current_head, tail_)
                                     THEN "idle" ELSE "read"]
    /\ UNCHANGED <<buffer_, head_, tail_, pushPc, current_tail, next_tail,
                   pushItem, pushRet, popPc, current_head, popOut, popRet, pushed,
                   popped, overwrote>>
    /\ UNCHANGED <<srvVars, sideVars>>

\* pop(), line 53: item = buffer_[current_head]
QPopRead(w) ==
    /\ mq[w].pc = "read"
    /\ mq' = [mq EXCEPT ![w].msg = buffer_[mq[w].current_head], ![w].pc = "store"]
    /\ UNCHANGED <<buffer_, head_, tail_, pushPc, current_tail, next_tail,
                   pushItem, pushRet, popPc, current_head, popOut, popRet, pushed,
                   popped, overwrote>>
    /\ UNCHANGED <<srvVars, sideVars>>

\* pop(), lines 54-55: head_.store((current_head + 1) & MASK, release);
\* return true
QPopStore(w) ==
    /\ mq[w].pc = "store"
    /\ head_' = NextIndex(mq[w].current_head)
    /\ popped' = Append(popped, mq[w].msg)
    /\ mq' = [mq EXCEPT ![w].pc = "count"]
    /\ UNCHANGED <<buffer_, tail_, pushPc, current_tail, next_tail, pushItem,
                   pushRet, popPc, current_head, popOut, popRet, pushed, overwrote>>
    /\ UNCHANGED <<srvVars, sideVars>>

\* line 329, the body of the while loop: stats_.total_messages.fetch_add(1)
QCount(w) ==
    /\ mq[w].pc = "count"
    /\ total_messages' = Inc64(total_messages)
    /\ mq' = [mq EXCEPT ![w].pc = "idle"]
    /\ UNCHANGED <<buffer_, head_, tail_, pushPc, current_tail, next_tail,
                   pushItem, pushRet, popPc, current_head, popOut, popRet, pushed,
                   popped, overwrote>>
    /\ UNCHANGED <<cfgVars, running_, server_socket_, epoll_fd_, worker_threads_,
                   objVars, active_connections, peak_connections, mtxVars, crashed,
                   th, cp, k, cl, h, sideVars>>

\* a producer that pushes to message_queue_ and the workers that drain it
QueueNext ==
    \/ PushLoadTail
    \/ PushCheck
    \/ PushWrite
    \/ PushStore
    \/ \E w \in QueueWorkers :
          QPopLoadHead(w) \/ QPopCheck(w) \/ QPopRead(w) \/ QPopStore(w) \/ QCount(w)

\* the ring alone: the server object stays as constructed
RingAloneInit == RingInit /\ SrvInit(0, 0, 0)

SpecRing == RingAloneInit /\ [][RingNext]_vars

\* message_queue_ with the workers of a started UltraHFTServer as its
\* consumers
QueueInit == RingInit /\ SrvInit(QueueThreads, 0, 0) /\ flavour = "ultra"

SpecQueue == QueueInit /\ [][QueueNext]_vars

\* a server whose client may close its socket or reset the connection
FaultNext == ServeNext \/ \E c \in Clients : ClientReset(c)

FaultInit == RingInit /\ SrvInit(FaultThreads, FaultClients, FaultRecords)

SpecFault == FaultInit /\ [][FaultNext]_vars

\* a server with two workers whose clients, all but the last, send a record
\* and may reset or close their connection, while the last one only connects
\* and closes: its socket can get the descriptor number of one just closed
ReuseNext ==
    \/ \E failAt \in InitFailPoints : Initialize(failAt)
    \/ MainRegister
    \/ MainStart \/ StartCheck(1) \/ StartRun(1) \/ StartSpawn(1)
    \/ \E t \in Threads : WorkerStep(t)
    \/ \E c \in Clients : ClientConnect(c)
    \/ \E c \in {d \in Clients : d < ServeClients} : ClientSend(c) \/ ClientReset(c)
    \/ \E c \in {d \in Clients : d >= ServeClients} : ClientClose(c)

ReuseInit == RingInit /\ SrvInit(ServeThreads, ServeClients, ServeRecords)

SpecReuse == ReuseInit /\ [][ReuseNext]_vars

(***************************************************************************)
(* main and signal_handler (main.cpp:10-19, 56-122,                        *)
(* ultra_main.cpp:9-18, 100-136)                                           *)
(***************************************************************************)
SIGINT == 2

SIGTERM == 15

\* signal(SIGINT, signal_handler); signal(SIGTERM, signal_handler)
Signals == {SIGINT, SIGTERM}

\* what no step of main or of the handler's bookkeeping writes
mainFixed == <<ringVars, srvVars, poolVars, dsp>>

\* g_server = &server, then the two signal() calls
MainSetup ==
    /\ mainPc = "boot"
    /\ mainPc' = "setup"
    /\ g_server' = TRUE
    /\ UNCHANGED <<mainFixed, mainRet, sg>>

\* server.initialize(...)
MainInitialize(failAt) == mainPc = "setup" /\ Initialize(failAt)

\* if (!server.initialize(...)) return 1
MainFail ==
    /\ mainPc = "setup"
    /\ h.initRet = "false"
    /\ mainPc' = "returned"
    /\ mainRet' = 1
    /\ UNCHANGED <<mainFixed, g_server, sg>>

\* start() has returned: main enters while (true) and sleeps
MainEnterLoop ==
    /\ mainPc = "setup"
    /\ h.startCalls = 1
    /\ cp[1].pc = "idle"
    /\ mainPc' = "sleep"
    /\ UNCHANGED <<mainFixed, g_server, mainRet, sg>>

\* std::this_thread::sleep_for(100ms) is over (or was interrupted by a
\* handler that has returned)
MainWake ==
    /\ mainPc = "sleep"
    /\ sg.cur = 0
    /\ mainPc' = "check"
    /\ UNCHANGED <<mainFixed, g_server, mainRet, sg>>

\* if (!g_server) break; ... return 0
MainCheck ==
    /\ mainPc = "check"
    /\ sg.cur = 0
    /\ IF ~g_server THEN mainPc' = "returned" /\ mainRet' = 0
                    ELSE mainPc' = "sleep" /\ mainRet' = mainRet
    /\ UNCHANGED <<mainFixed, g_server, sg>>

\* the kernel delivers sig to the main thread while it is in its loop
Signal(sig) ==
    /\ mainPc \in {"sleep", "check"}
    /\ sg.cur = 0
    /\ Len(sg.done) < MaxSignals
    /\ sg' = [sg EXCEPT !.cur = sig, !.base = h.stopCalls, !.ran = running_]
    /\ UNCHANGED <<mainFixed, g_server, mainPc, mainRet>>

\* the test of signal_handler: main.cpp wants g_server && signal == SIGINT,
\* ultra_main.cpp wants g_server
HandlerCallsStop(sig) == g_server /\ (flavour = "ultra" \/ sig = SIGINT)

\* g_server->stop(), on the interrupted thread
HandlerStop ==
    /\ sg.cur # 0
    /\ HandlerCallsStop(sg.cur)
    /\ h.stopCalls = sg.base
    /\ CallStop(1)

\* signal_handler returns
HandlerReturn ==
    /\ sg.cur # 0
    /\ cp[1].pc = "idle"
    /\ HandlerCallsStop(sg.cur) => h.stopCalls > sg.base
    /\ sg' = [sg EXCEPT !.cur = 0,
                        !.done = Append(@, [sig |-> sg.cur, ran |-> sg.ran])]
    /\ UNCHANGED <<mainFixed, g_server, mainPc, mainRet>>

\* the program: main, the handler, the workers and the clients
SigNext ==
    \/ MainSetup
    \/ \E failAt \in InitFailPoints : MainInitialize(failAt)
    \/ MainFail
    \/ MainRegister
    \/ MainStart \/ StartCheck(1) \/ StartRun(1) \/ StartSpawn(1)
    \/ MainEnterLoop \/ MainWake \/ MainCheck
    \/ \E sig \in Signals : Signal(sig)
    \/ HandlerStop \/ StopBody(1) \/ HandlerReturn
    \/ \E t \in Threads : WorkerStep(t)
    \/ \E c \in Clients : ClientStep(c)

SigInit == RingInit /\ SrvInit(SigThreads, SigClients, SigRecords)

\* the scheduler lets the process run: some step is taken whenever one is
\* possible
SpecSignal == SigInit /\ [][SigNext]_vars /\ WF_vars(SigNext)

\* the buffer pool alone, its callers taking and returning slots
PoolInit == RingInit /\ SrvInit(0, 0, 0)

SpecPool == PoolInit /\ [][PoolNext]_vars

\* one client whose records exceed the receive buffer
PartInit == RingInit /\ SrvInit(PartThreads, PartClients, PartRecords)

SpecPartial == PartInit /\ [][ServeNext]_vars

\* the dispatcher alone, on every size and tag
DispatchInit == RingInit /\ SrvInit(0, 0, 0)

SpecDispatch == DispatchInit /\ [][DispatchNext]_vars

(***************************************************************************)
(* Claims about the ring                                                   *)
(***************************************************************************)
IsPrefix(s, t) == Len(s) <= Len(t) /\ \A i \in 1 .. Len(s) : s[i] = t[i]

RingDone == Len(pushed) = MaxItems /\ Len(popped) = MaxItems
            /\ pushPc = "idle" /\ popPc = "idle"

\* C1: the ring is FIFO under every interleaving of the steps of one producer
\* and one consumer: the items popped are always a prefix of the items pushed,
\* and once all MaxItems items are pushed and popped the two sequences are
\* equal and empty() holds; the consumer never accesses a slot the producer is
\* writing, and the producer never writes a slot that holds an unpopped item.
C1_RingFifo ==
    /\ IsPrefix(popped, pushed)
    /\ (RingDone => (popped = pushed /\ empty))
    /\ ~(pushPc \in {"write", "store"} /\ popPc \in {"read", "store"}
         /\ current_tail = current_head)
    /\ (popPc = "store" => popOut = Len(popped) + 1)
    /\ ~overwrote

\* C1 witness: all items went through a ring smaller than their number
C1_Witness == RingDone /\ popped = [i \in 1 .. MaxItems |-> i] /\ MaxItems > capacity

\* C2: push() returns false exactly when the ring is full at its load of
\* head_, pop() returns false exactly when the ring is empty at its load of
\* tail_, and no step of a call that returns false changes head_, tail_, a
\* slot of buffer_ or pop()'s output argument.
C2_RingReturns ==
    [][ /\ (pushPc = "check" /\ pushPc' # "check")
            => /\ (pushPc' = "idle") <=> full
               /\ (pushPc' = "idle") => pushRet' = "false"
               /\ (pushPc' # "idle") => pushPc' = "write"
        /\ (popPc = "check" /\ popPc' # "check")
            => /\ (popPc' = "idle") <=> empty
               /\ (popPc' = "idle") => popRet' = "false"
               /\ (popPc' # "idle") => popPc' = "read"
        /\ (pushPc' = "check" \/ (pushPc = "check" /\ pushPc' = "idle"))
            => (pushPc' # pushPc => UNCHANGED <<head_, tail_, buffer_, popOut>>)
        /\ (popPc' = "check" \/ (popPc = "check" /\ popPc' = "idle"))
            => (popPc' # popPc => UNCHANGED <<head_, tail_, buffer_, popOut>>)
        /\ (pushRet' = "true" /\ pushRet' # pushRet) => pushPc = "store"
        /\ (popRet' = "true" /\ popRet' # popRet) => popPc = "store"
      ]_vars

\* C2 witness: a push() has returned false on a full ring and, after the
\* consumer emptied the ring, a pop() has returned false
C2_Witness ==
    /\ pushRet = "false" /\ popRet = "false"
    /\ pushPc = "idle" /\ popPc = "idle"
    /\ empty /\ Len(popped) = capacity


(***************************************************************************)
(* Claims about the servers                                                *)
(***************************************************************************)
\* the workers that have handed a record to the dispatcher and not yet
\* counted it
InDispatch == Cardinality({t \in Threads : th[t].pc \in {"pm", "pm_send", "pm_wr"}})

Accepted == 1 .. nConn

InTable(id) ==
    IF flavour = "hft" THEN \E fd \in Fds : connections_[fd] = id
    ELSE \E i \in 1 .. Len(connections_) : connections_[i] = id

Registered(id) == conn[id].fd \in Fds /\ k.reg[conn[id].fd] = id

\* a worker is between the steps of accepting or of closing connection id
Handling(id) ==
    \E t \in Threads :
       /\ th[t].conn = id
       /\ th[t].pc \in {"acc_ins", "acc_peak", "acc_push", "acc_ld", "acc_cas",
                        "acc_log", "close", "erase", "sub"}

\* C4: a connection that is active is registered with epoll and present in the
\* connection table, and a connection that has been closed is in neither: no
\* closed connection's record remains in the table.
C4_ActiveRegisteredClosedGone ==
    ~crashed =>
       \A id \in Accepted :
          ~Handling(id) =>
             IF conn[id].closed THEN ~InTable(id) /\ ~Registered(id)
             ELSE InTable(id) /\ Registered(id)

\* the connections the server counts as active: the size of the table
\* (HFTServer), stats_.active_connections (UltraHFTServer)
Active ==
    IF flavour = "hft" THEN Cardinality({fd \in Fds : connections_[fd] # 0})
    ELSE active_connections

\* C5: peak_connections >= active_connections in every state another thread
\* can read, the states between the steps of accept included.
C5_PeakAtLeastActive == ~crashed => peak_connections >= Active

\* every worker waits in epoll_wait and epoll has nothing to report
Idle ==
    /\ \A t \in Threads : th[t].st = "run" => th[t].pc = "loop"
    /\ KReported(k) = {}

\* C6: a client that has sent its K ORDER_NEW records on one connection and
\* keeps it open has, once the server has nothing left to do, received K acks,
\* the k-th carrying the message_id of the k-th request.
C6_RoundTrip ==
    \A c \in Clients :
       (/\ flavour = "ultra"
        /\ ~crashed
        /\ running_
        /\ cp[1].pc = "idle"
        /\ \E t \in Threads : th[t].st = "run"
        /\ Idle
        /\ cl[c].st = "conn"
        /\ cl[c].sent = cl[c].quota
        /\ SockOf(k, c) # {})
       => cl[c].acks = [n \in 1 .. cl[c].quota |-> MsgId(c, n)]

\* C7: when stop() has returned on a server that was running (started once,
\* no call overlapping another), every worker has terminated and the listener, the epoll descriptor and every client
\* socket are closed.
C7_StopClosesEverything ==
    (/\ ~crashed
     /\ h.initRet = "true"
     /\ h.startCalls = 1
     /\ ~h.overlap
     /\ h.stopReturned
     /\ \A c \in Callers : cp[c].pc = "idle")
    => /\ \A t \in Threads : th[t].st # "run"
       /\ \A fd \in Fds : k.kind[fd] = "free"

\* C8: for any number of stop() calls, sequential or overlapping, each worker
\* is joined once and no descriptor is closed twice.
C8_StopOnce ==
    (h.initRet = "true" /\ h.startOnInit)
    => /\ \A t \in Threads : h.joins[t] <= 1
       /\ ~h.stopBadClose

\* C9: after any number of start() calls on an initialized server, sequential
\* or overlapping, exactly thread_count workers exist and running is true.
C9_StartIdempotent ==
    (/\ ~crashed
     /\ h.initRet = "true"
     /\ h.startOnInit
     /\ h.stopCalls = 0
     /\ h.startCalls >= 1
     /\ \A c \in Callers : cp[c].pc = "idle")
    => /\ running_
       /\ Cardinality({t \in Threads : th[t].st # "none"}) = thread_count_

\* C10: when initialize() has failed, at whichever step, it has returned false
\* and no listener socket and no epoll descriptor is open.
C10_InitializeReleases == h.initRet = "false" => \A fd \in Fds : k.kind[fd] = "free"

C10_Witness ==
    /\ h.initRet = "false"
    /\ server_socket_ \in Fds
    /\ epoll_fd_ \in Fds
    /\ \A fd \in Fds : k.kind[fd] = "free"

\* the server is started, not crashed, and has nothing left to do: every
\* worker is back in epoll_wait and no notification is pending
Quiescent ==
    /\ ~crashed
    /\ running_
    /\ cp[1].pc = "idle"
    /\ \E t \in Threads : th[t].st = "run"
    /\ Idle

\* C11: a client that has sent K whole records back to back on one connection
\* of the HFTServer and keeps it open has, once the server has nothing left to
\* do, raised total_messages_processed by exactly K, however the byte stream
\* hands the records to the recv calls.
C11_BurstCounted ==
    \A c \in Clients :
       (/\ flavour = "hft"
        /\ Quiescent
        /\ cl[c].st = "conn"
        /\ cl[c].sent = cl[c].quota
        /\ SockOf(k, c) # {}
        /\ \A d \in Clients \ {c} : cl[d].sent = 0)
       => total_messages = cl[c].quota

\* C12: within one connection the records reach the handlers in the order in
\* which they were read from the socket, for every interleaving of the
\* workers: the records dispatched so far are the first of the records read.
C12_DispatchInReadOrder ==
    \A c \in Clients : IsPrefix(h.disp[c], h.reads[c])

\* worker t is inside the per-connection service routine (find, recv,
\* dispatch, close) for descriptor fd
Servicing(t, fd) ==
    /\ th[t].fd = fd
    /\ th[t].pc \in {"hce_find", "recv", "pm", "pm_send", "pm_wr", "close", "erase",
                     "sub"}

\* C13: a client socket is serviced by at most one worker at a time: no two
\* workers are inside the per-connection service routine for the same
\* descriptor.
C13_OneWorkerPerSocket ==
    \A t1, t2 \in Threads :
       \A fd \in Fds : Servicing(t1, fd) /\ Servicing(t2, fd) => t1 = t2

\* C14: close_connection is idempotent: however often it is invoked for a
\* connection, by one worker or by two that both saw the end of file, the
\* socket is closed and deregistered once, and no descriptor that is not the
\* connection's open socket is closed.
C14_CloseIdempotent == ~h.reclosed /\ ~h.badClose

\* the accepted connections whose client has not closed its socket
OpenConnections == {c \in Clients : cl[c].st = "conn" /\ SockOf(k, c) # {}}

\* C15: a peer disconnect is seen by the server, which removes the connection
\* and lowers the active count by one: whenever the server has nothing left
\* to do, the active-connections figure it reports is the number of
\* connections currently open, and no socket of a client that has closed is
\* still open on the server.
C15_ActiveIsOpen ==
    Quiescent =>
       /\ active_connections = Cardinality(OpenConnections)
       /\ \A c \in Clients : cl[c].st = "closed" => SockOf(k, c) = {}

\* worker t is about to read or to change UltraHFTServer::connections_: the
\* push_back of accept_connections and the scan of handle_client_events take
\* no lock (HFTServer takes connections_mutex_ inside the same steps)
TableAccess(t) == flavour = "ultra" /\ th[t].pc \in {"acc_push", "hce_find"}

\* C17: every access to the connection table is made under the table's
\* mutex, so no worker changes the table while another worker reads or
\* changes it.
C17_TableUnderMutex ==
    \A t1, t2 \in Threads :
       (t1 # t2 /\ TableAccess(t1) /\ th[t1].pc = "acc_push") => ~TableAccess(t2)

\* C16: the lifecycle callbacks fire exactly once per connection: once
\* accept_connections is through with a connection on_connection_established
\* has been invoked once for it, and once close_connection is through with it
\* on_connection_closed has been invoked once.
C16_CallbacksOnce ==
    \A id \in Accepted :
       (flavour = "hft" /\ ~crashed /\ ~Handling(id)) =>
          /\ h.established[id] = 1
          /\ h.closedCalls[id] = (IF conn[id].closed THEN 1 ELSE 0)

\* C18: a record whose payload_size exceeds the payload's 1024 bytes, or whose
\* message_type is not one a service can be registered for, is rejected: no
\* service's process_message is ever called with it.
C18_InvalidRejected == ~h.oversized

\* C19: a complete record whose type has no handler registered is dropped and
\* counted: the dispatch step invokes no handler and closes no socket, and
\* total_messages_processed goes up by one (HFTServer: in the step that
\* follows under stats_mutex_, UltraHFTServer: in the dispatch step).
C19_HandlerAbsent ==
    [][\A t \in Threads :
          /\ (/\ th[t].pc = "pm"
              /\ th'[t].pc # "pm"
              /\ LastRegistered(th[t].mtype) = NoService)
             => /\ h'.invoked = h.invoked
                /\ k' = k
                /\ IF flavour = "hft"
                      THEN th'[t].pc = "pm_wr" /\ th'[t].a = total_messages
                      ELSE total_messages' = total_messages + 1
          /\ (th[t].pc = "pm_wr" /\ th'[t].pc # "pm_wr")
             => total_messages' = total_messages + 1 /\ k' = k]_vars

\* a record without a handler has been dropped and counted on a connection
\* that is still open: the count is the handler calls plus the drops
C19_Witness ==
    /\ h.absent >= 1
    /\ total_messages = h.absent + h.invoked
    /\ \E c \in Clients : cl[c].st = "conn" /\ cl[c].rd > 0 /\ SockOf(k, c) # {}

\* C20: the last register_service call for a message type wins and touches
\* no other type's entry, and a record is never passed to a service other
\* than the one last registered for its type at the moment of the lookup.
C20_LastRegistrationWins ==
    /\ flavour = "hft" => services_ = h.lastReg
    /\ ~h.stale

\* ORDER_NEW has been registered twice, with different services, and a record
\* has been passed to a service
C20_Witness ==
    /\ flavour = "hft"
    /\ h.replaced
    /\ h.invoked >= 1
    /\ h.lastReg[ORDER_NEW] # NoService
    /\ h.lastReg[MARKET_DATA] = NoService

\* the slots of window are pairwise distinct
Distinct(window) ==
    \A i, j \in 1 .. Len(window) : window[i] = window[j] => i = j

\* C21: get_next_send_buffer and get_next_recv_buffer return the slot at the
\* counter's previous value modulo the capacity: any capacity consecutive
\* allocations of a pool return pairwise distinct slots, and two callers hold
\* the same slot at once only if at least capacity allocations were made
\* while the first of them held it.
C21_PoolSlotsDistinct ==
    /\ Distinct(ph.send) /\ Distinct(ph.recv)
    /\ ph.send # <<>> =>
          ph.send[Len(ph.send)] = ((send_buffer_index_ + IndexWrap - 1) % IndexWrap) % PoolCap
    /\ ph.recv # <<>> =>
          ph.recv[Len(ph.recv)] = ((recv_buffer_index_ + IndexWrap - 1) % IndexWrap) % PoolCap
    /\ \A u, v \in PoolUsers :
          (u # v /\ pu[u].pool # "none" /\ pu[u].pool = pu[v].pool
             /\ pu[u].slot = pu[v].slot)
          => pu[u].since >= PoolCap \/ pu[v].since >= PoolCap

\* the index has wrapped, a full window of allocations has been made, and two
\* callers hold the same slot of the send pool
C21_Witness ==
    /\ Len(ph.send) = PoolCap
    /\ send_buffer_index_ < PoolCap
    /\ \E u, v \in PoolUsers :
          u # v /\ pu[u].pool = "send" /\ pu[v].pool = "send" /\ pu[u].slot = pu[v].slot

\* C22: the per-connection service closes the connection when recv returns 0
\* or fails with an error other than EAGAIN / EWOULDBLOCK, and leaves it open
\* and registered when recv fails with EAGAIN / EWOULDBLOCK: a recv step with
\* the first two results goes on to close_connection, one with the third
\* returns and changes no descriptor.
C22_RecvCloseCases ==
    [][\A t \in Threads :
          (th[t].pc = "recv" /\ th'[t].pc # "recv") =>
             /\ RecvResult(th[t].fd) \in {"eof", "error"} => th'[t].pc = "close"
             /\ RecvResult(th[t].fd) = "eagain" => th'[t].pc = "ev" /\ k' = k]_vars

\* a signal was delivered to the running server and its handler has returned
StoppedBySignal(sig) ==
    \E i \in 1 .. Len(sg.done) : sg.done[i].sig = sig /\ sg.done[i].ran

\* C23: SIGINT and SIGTERM each trigger a graceful stop: once the handler of
\* either signal, delivered to a running server, has returned, stop() has
\* been called and the server is not running.
C23_SignalStops ==
    \A sig \in Signals :
       (StoppedBySignal(sig) /\ sg.cur = 0 /\ ~crashed) => h.stopCalls >= 1 /\ ~running_

\* C24: after a graceful stop triggered by SIGINT the process terminates:
\* main's loop exits and main returns 0.
C24_MainExits == (StoppedBySignal(SIGINT) /\ ~crashed) ~> (mainRet = 0)


\* C25: any two accepted connections have different client_id values, and the
\* one accepted later has the larger one, also when the earlier one was closed
\* before the later one was accepted
C25_ClientIdsIncrease ==
    \A i, j \in Accepted : i < j => conn[i].client_id < conn[j].client_id


\* C26: the handling of a notification drains the socket: whenever the server
\* has nothing left to do, every whole record a client has sent on a
\* connection that is still open has been dispatched, without any further
\* data arriving
C26_DrainDispatchesAll ==
    \A c \in Clients :
       (Quiescent /\ cl[c].st = "conn" /\ SockOf(k, c) # {})
       => Len(h.disp[c]) = cl[c].sent


\* worker t is inside accept_connections
InAccept(t) ==
    th[t].pc \in {"acc", "acc_ins", "acc_peak", "acc_push", "acc_ld", "acc_cas", "acc_log"}

\* a step by which worker t returns from accept_connections
AcceptReturns(t) ==
    /\ InAccept(t)
    /\ ~crashed'
    /\ th'[t].pc \notin {"acc", "acc_ins", "acc_peak", "acc_push", "acc_ld", "acc_cas",
                         "acc_log"}

\* C27: on a listener event the worker accepts until accept would block: when
\* it returns from accept_connections, no connection that was pending when it
\* took the event is still waiting in the backlog
C27_AcceptDrains ==
    [][\A t \in Threads :
          AcceptReturns(t) => \A c \in th[t].pend : ~InBacklog(k', c)]_vars


\* the overload the dispatcher is to call for n bytes with tag ty: the
\* variant when the tag names one and the bytes suffice, the base Message
\* in every other case
Selected(n, ty) ==
    IF ty \in OrderTags /\ n >= SizeofOrderMessage THEN "order"
    ELSE IF ty = MARKET_DATA /\ n >= SizeofMarketDataMessage THEN "market"
    ELSE "base"

\* C28: a buffer of n >= sizeof(Message) bytes is dispatched exactly once and
\* counted: as an OrderMessage for an order tag with n >= sizeof(OrderMessage),
\* as a MarketDataMessage for MARKET_DATA with n >= sizeof(MarketDataMessage),
\* as a base Message in every other case, an order or market data tag with
\* fewer bytes than its variant included
C28_VariantSelection ==
    (dsp.out \notin {"idle", "read"} /\ dsp.n >= SizeofMessage)
    => /\ dsp.out = Selected(dsp.n, dsp.tag)
       /\ total_messages = dsp.base + 1


\* a step in which recv on fd returns a positive count below HeaderSize
PartialRecv(fd) ==
    /\ ~crashed
    /\ \E t \in Threads : th[t].pc = "recv" /\ th[t].fd = fd
    /\ RecvResult(fd) = "data"
    /\ Min(Avail(k.peer[fd]), RecvSize) < HeaderSize
    /\ cl'[k.peer[fd]].rd > cl[k.peer[fd]].rd

\* the bytes of a partial header reach no handler: nothing is handed to the
\* dispatcher, total_messages_processed is unchanged and the connection
\* stays open
PartialDropped(fd) ==
    /\ h'.dispatched = h.dispatched
    /\ h'.disp = h.disp
    /\ total_messages' = total_messages
    /\ KValid(k', fd, "sock")

\* C29, as stated: when recv returns a positive count smaller than the header,
\* the worker leaves the connection's service loop, no handler is invoked,
\* total_messages_processed is unchanged and the connection stays open
C29_PartialHeader ==
    [][\A fd \in Fds :
          PartialRecv(fd)
          => /\ \E t \in Threads :
                  th[t].pc = "recv" /\ th[t].fd = fd /\ th'[t].pc = "ev"
             /\ PartialDropped(fd)]_vars

\* C29, amended: when recv returns a positive count smaller than the header,
\* no handler is invoked, total_messages_processed is unchanged and the
\* connection stays open; UltraHFTServer's handler returns, HFTServer's loop
\* goes on to its next recv
C29_PartialHeaderDropped ==
    [][\A fd \in Fds :
          PartialRecv(fd)
          => /\ \E t \in Threads :
                  /\ th[t].pc = "recv" /\ th[t].fd = fd
                  /\ th'[t].pc = IF flavour = "hft" THEN "recv" ELSE "ev"
             /\ PartialDropped(fd)]_vars

\* a partial header was read from a connection that is open and has had a
\* record dispatched
C29_Witness ==
    /\ ~crashed
    /\ h.partial
    /\ \E c \in Clients : SockOf(k, c) # {} /\ Len(h.disp[c]) >= 1


\* caller c is in stop() at or after the join of the workers
AtOrAfterJoin(c) ==
    cp[c].pc \in {"st_join", "st_joining", "st_clear", "st_ep_chk", "st_ep_close",
                  "st_conns", "st_ret"}

\* the steps of the one stop() call of a started server so far respect the
\* order: the listener is closed before the join
ListenerClosedBeforeJoin ==
    \A c \in Callers :
       AtOrAfterJoin(c) => ~running_ /\ \A fd \in Fds : k.kind[fd] # "listen"

\* a worker that can still poll finds the epoll instance open
ReactorOpenWhilePolled ==
    (\E t \in Threads : th[t].st = "run") => \E fd \in Fds : k.kind[fd] = "epoll"

\* stop() has returned: no Connection is left in the table and no client
\* socket is open
ConnectionsDropped ==
    (h.stopReturned /\ \A c \in Callers : cp[c].pc = "idle")
    => /\ \A id \in ConnIds : ~InTable(id)
       /\ \A fd \in Fds : k.kind[fd] # "sock"

\* C30: stop() sets running to false, closes the listener, joins the workers,
\* closes the reactor, then closes and drops every Connection: the listener
\* is closed before the workers are joined, the reactor is not closed while a
\* worker can still poll it, and after stop() the connection table is empty
C30_StopOrder ==
    (~crashed /\ h.initRet = "true" /\ h.startCalls = 1 /\ ~h.overlap)
    => /\ ListenerClosedBeforeJoin
       /\ ReactorOpenWhilePolled
       /\ ConnectionsDropped


\* C31: the lifecycle only moves along Unconfigured -> Initialized -> Running
\* -> Stopping -> Stopped: a worker exists only when initialize() has
\* succeeded, no worker runs once stop() has returned (a start() on a stopped
\* server spawns none), and no worker polls an epoll descriptor that was
\* never created or is already closed
C31_Lifecycle ==
    (~crashed /\ ~h.overlap)
    => /\ (\E t \in Threads : th[t].st # "none") => h.initRet = "true"
       /\ (h.stopReturned /\ cp[1].pc = "idle") => \A t \in Threads : th[t].st # "run"
       /\ ~h.badPoll


\* the items in the ring: the successful pushes minus the successful pops
Occupancy == Len(pushed) - Len(popped)

\* C32: empty() holds exactly when the ring holds no item (head == tail),
\* full() exactly when it holds capacity() = N - 1 items ((tail + 1) mod N ==
\* head, one slot reserved), and size() is the number of successful pushes
\* minus the number of successful pops and never exceeds capacity()
C32_RingOccupancy ==
    /\ size = Occupancy
    /\ size <= capacity
    /\ capacity = SIZE - 1
    /\ empty <=> Occupancy = 0
    /\ full <=> Occupancy = capacity
    /\ empty <=> head_ = tail_
    /\ full <=> (tail_ + 1) % SIZE = head_

\* C32 witness: the ring is full after its indices have wrapped around
C32_Witness ==
    /\ full
    /\ size = capacity
    /\ Len(pushed) > SIZE
    /\ tail_ < head_


\* C33, as stated: head_ and tail_ are untruncated counters that only grow:
\* head_ is the number of successful pops, tail_ the number of successful
\* pushes, and the mask is applied only where a slot is accessed
C33_IndicesUntruncated ==
    /\ head_ = Len(popped)
    /\ tail_ = Len(pushed)

\* C33, amended: head_ and tail_ are stored masked: each is a slot number in
\* 0 .. N - 1, head_ the number of successful pops modulo N and tail_ the
\* number of successful pushes modulo N, and the slots are accessed with the
\* stored values as they are
C33_IndicesMasked ==
    /\ head_ \in Slots
    /\ tail_ \in Slots
    /\ head_ = Len(popped) % SIZE
    /\ tail_ = Len(pushed) % SIZE
    /\ pushPc \in {"check", "write", "store"} => current_tail = tail_
    /\ popPc \in {"check", "read", "store"} => current_head = head_

\* C33 witness: both indices have gone round the ring
C33_Witness ==
    /\ Len(pushed) > SIZE
    /\ Len(popped) >= SIZE
    /\ head_ < SIZE
    /\ tail_ = 1


\* worker t's lookup in handle_client_events finds a Connection for a
\* descriptor that is an open client socket
FindsRecord(t) ==
    /\ th[t].pc = "hce_find"
    /\ th'[t].pc = "recv"
    /\ KValid(k, th[t].fd, "sock")

\* C34: a readiness event is resolved to the Connection that owns the socket:
\* the record the service routine is given for an open descriptor is the one
\* registered for it, active and not closed, also when the descriptor number
\* was used by an earlier connection
C34_EventFindsOwner ==
    [][\A t \in Threads :
          FindsRecord(t)
          => /\ th'[t].conn = k.reg[th[t].fd]
             /\ ~conn[th'[t].conn].closed
             /\ conn[th'[t].conn].is_active]_vars


\* C35: no worker reads or writes a Connection that has been dropped from the
\* connection table and destroyed, in whatever order the workers' steps
\* interleave
C35_NoUseAfterFree == ~h.uaf


\* C36: the record a handler is handed is the one its worker received:
\* between a worker's recv into the receive buffer and the return of the
\* handler it calls, no other worker writes to that buffer
C36_BufferNotShared == ~h.clobbered


\* C37: in HFTServer a readiness event for an open client socket finds the
\* socket's Connection in the table, so that data arriving between the
\* registration with epoll and the insertion into the table is not lost:
\* once the server has nothing left to do, every byte a client has sent on
\* a connection that is still open has been received
C37_EarlyDataNotLost ==
    \A c \in Clients :
       (flavour = "hft" /\ Quiescent /\ cl[c].st = "conn" /\ SockOf(k, c) # {})
       => Avail(c) = 0


\* C38: in UltraHFTServer::accept_connections every successful accept
\* completes: the step after the connection was moved into connections_ and
\* counted does not fault, leaves the accepting worker running and takes it
\* back to the next accept of the loop
C38_AcceptCompletes ==
    [][\A t \in Threads :
          (flavour = "ultra" /\ ~crashed /\ th[t].pc = "acc_log")
          => /\ ~crashed'
             /\ th'[t].st = "run"
             /\ th'[t].pc \in {"acc_log", "acc"}]_vars


\* C39: an acknowledgement is only ever written to the socket of the client
\* whose request it answers: send_response never reaches another client, also
\* when another worker closes the connection between the is_active test and
\* the send and the descriptor number is given to a new client.
C39_AckToRequester == ~h.misdirected


====
